---- MODULE Spec2Model ----
(***************************************************************************)
(* 1-safe Petri net analysis: the net model of pnml_parser.py (PetriNet),  *)
(* the explicit breadth-first explorer, the symbolic (BDD) explorer of     *)
(* bdd.py, the deadlock finders of deadlock_detection.py and the marking   *)
(* optimizers of optimization.py.                                          *)
(*                                                                         *)
(* The net is the state; every analysis is a call that leaves the net      *)
(* alone and records its name, its arguments and what it returned in       *)
(* op / arg / ret.                                                         *)
(***************************************************************************)
EXTENDS Integers, Sequences, FiniteSets, TLC

VARIABLES places, transitions, arcs, preset, postset, initial_marking,
          HAS_PULP, bfs, fix, dbfs, lib, op, arg, ret

netvars == <<places, transitions, arcs, preset, postset, initial_marking>>
vars == <<places, transitions, arcs, preset, postset, initial_marking,
          HAS_PULP, bfs, fix, dbfs, lib, op, arg, ret>>

(***************************************************************************)
(* Bounds and identifier universes                                         *)
(***************************************************************************)
\* at most this many declared places in a net under analysis
MaxPlaces == 2
\* at most this many arcs in a net under analysis
MaxArcs == 3
\* at most this many arcs in a net whose search is followed step by step
MaxBfsArcs == 2
\* the linear chains have up to this many places
MaxChain == 5
\* the parallel nets have up to this many loops
MaxLoops == 3
\* the XOR nets have up to this many branchings
MaxSplit == 4
\* up to this many parallel chains
MaxParallelChains == 2
\* a reachable-set function handed to a finder has up to this many satisfying
\* assignments
MaxCandidates == 2
\* at most this many arcs in a net handed to a finder with such a function
MaxScanArcs == 1
\* at most this many arcs in a net on which every analysis is repeated
MaxRepeatArcs == 1
\* the dictionary-based search is followed while no place holds more than this
\* many tokens
MaxTokens == 3
\* at most this many arcs in a net handed to the dictionary-based search
MaxDictArcs == 2

\* identifiers in the order Python's sorted() puts them (lexical order of str)
IdOrder == <<"Eat1", "Eat2", "Fork1", "Fork2", "N0", "N1", "N2",
             "P", "P0", "P0_0", "P0_1", "P0_2", "P1", "P1_0", "P1_1", "P1_2",
             "P2", "P2_0", "P2_1", "P2_2", "P3", "P4", "P5",
             "Pickup1", "Pickup2", "Q", "Release1", "Release2",
             "T0", "T0_0", "T0_1", "T0_2", "T1", "T1_0", "T1_1", "T1_2",
             "T1a", "T1b", "T2", "T2_0", "T2_1", "T2_2", "T3", "T3_0", "T3_1",
             "T4", "T4_0", "T4_1", "Tdead", "Think1", "Think2">>
Rank(id) == CHOOSE i \in 1..Len(IdOrder) : IdOrder[i] = id

\* identifiers used for places, for transitions, and one identifier that is
\* never declared (set_initial_marking accepts any identifier)
PlaceNames == <<"P0", "P1", "P2", "P3", "P4", "P5">>
TransNames == <<"T0", "T1", "T2", "T3", "T4">>
PlaceIds == {PlaceNames[i] : i \in 1..MaxPlaces}
TransIds == {"T0", "T1"}
Undeclared == "Q"
\* identifiers handed to the construction operations: each may be declared as
\* a place or as a transition, or stay undeclared
BuildIds == {"N0", "N1", "N2"}
\* token counts handed to set_initial_marking
TokenValues == {-1, 0, 1, 2}
\* the weights a weight map gives (a place it leaves out weighs 0)
WeightValues == {-1, 2}

\* Optional[...]: None, or a value
None == <<>>
Some(v) == <<v>>

(***************************************************************************)
(* Python helpers                                                          *)
(***************************************************************************)
RECURSIVE sorted(_)
sorted(S) ==
    IF S = {} THEN <<>>
    ELSE LET x == CHOOSE y \in S : \A z \in S : Rank(y) <= Rank(z)
         IN <<x>> \o sorted(S \ {x})

Range(s) == {s[i] : i \in 1..Len(s)}

\* the orders in which a collection with the elements S can give them
IterationOrders(S) == {s \in [1..Cardinality(S) -> S] : Range(s) = S}

(***************************************************************************)
(* PetriNet: construction (pnml_parser.py lines 9-49). Each operation is   *)
(* an action on the net; a raised ValueError leaves the net as it was.     *)
(***************************************************************************)
Raise(name, a, e) ==
    /\ op' = name
    /\ arg' = a
    /\ ret' = [err |-> e]
    /\ UNCHANGED netvars
    /\ UNCHANGED <<HAS_PULP, bfs, fix, dbfs, lib>>

Returned(name, a) ==
    /\ op' = name
    /\ arg' = a
    /\ ret' = [err |-> "none"]
    /\ UNCHANGED <<HAS_PULP, bfs, fix, dbfs, lib>>

\* d[k] = v, for a dict d
SetItem(d, k, v) == [x \in DOMAIN d \cup {k} |-> IF x = k THEN v ELSE d[x]]

\* a mutation of add_place: the identifier is compared with the places only
add_place_places_only(pid) ==
    IF pid \in places
    THEN Raise("add_place", [pid |-> pid], "ValueError")
    ELSE /\ places' = places \cup {pid}
         /\ preset' = SetItem(preset, pid, {})
         /\ postset' = SetItem(postset, pid, {})
         /\ UNCHANGED <<transitions, arcs, initial_marking>>
         /\ Returned("add_place", [pid |-> pid])

add_place(pid) ==
    IF pid \in places \/ pid \in transitions
    THEN Raise("add_place", [pid |-> pid], "ValueError")
    ELSE /\ places' = places \cup {pid}
         /\ preset' = SetItem(preset, pid, {})
         /\ postset' = SetItem(postset, pid, {})
         /\ UNCHANGED <<transitions, arcs, initial_marking>>
         /\ Returned("add_place", [pid |-> pid])

\* a mutation of add_transition: the identifier is compared with the
\* transitions only
add_transition_transitions_only(tid) ==
    IF tid \in transitions
    THEN Raise("add_transition", [tid |-> tid], "ValueError")
    ELSE /\ transitions' = transitions \cup {tid}
         /\ preset' = SetItem(preset, tid, {})
         /\ postset' = SetItem(postset, tid, {})
         /\ UNCHANGED <<places, arcs, initial_marking>>
         /\ Returned("add_transition", [tid |-> tid])

add_transition(tid) ==
    IF tid \in transitions \/ tid \in places
    THEN Raise("add_transition", [tid |-> tid], "ValueError")
    ELSE /\ transitions' = transitions \cup {tid}
         /\ preset' = SetItem(preset, tid, {})
         /\ postset' = SetItem(postset, tid, {})
         /\ UNCHANGED <<places, arcs, initial_marking>>
         /\ Returned("add_transition", [tid |-> tid])

\* a mutation of add_arc: the check on the kinds of the two ends is dropped
add_arc_untyped(src, tgt) ==
    IF src \notin places /\ src \notin transitions
    THEN Raise("add_arc", [src |-> src, tgt |-> tgt], "ValueError")
    ELSE IF tgt \notin places /\ tgt \notin transitions
    THEN Raise("add_arc", [src |-> src, tgt |-> tgt], "ValueError")
    ELSE /\ arcs' = Append(arcs, <<src, tgt>>)
         /\ postset' = SetItem(postset, src, postset[src] \cup {tgt})
         /\ preset' = SetItem(preset, tgt, preset[tgt] \cup {src})
         /\ UNCHANGED <<places, transitions, initial_marking>>
         /\ Returned("add_arc", [src |-> src, tgt |-> tgt])

\* a mutation of add_arc: the preset of the target is not updated
add_arc_postset_only(src, tgt) ==
    IF src \notin places /\ src \notin transitions
    THEN Raise("add_arc", [src |-> src, tgt |-> tgt], "ValueError")
    ELSE IF tgt \notin places /\ tgt \notin transitions
    THEN Raise("add_arc", [src |-> src, tgt |-> tgt], "ValueError")
    ELSE IF (src \in places /\ tgt \in places) \/ (src \in transitions /\ tgt \in transitions)
    THEN Raise("add_arc", [src |-> src, tgt |-> tgt], "ValueError")
    ELSE /\ arcs' = Append(arcs, <<src, tgt>>)
         /\ postset' = SetItem(postset, src, postset[src] \cup {tgt})
         /\ UNCHANGED <<places, transitions, initial_marking, preset>>
         /\ Returned("add_arc", [src |-> src, tgt |-> tgt])

add_arc(src, tgt) ==
    IF src \notin places /\ src \notin transitions
    THEN Raise("add_arc", [src |-> src, tgt |-> tgt], "ValueError")
    ELSE IF tgt \notin places /\ tgt \notin transitions
    THEN Raise("add_arc", [src |-> src, tgt |-> tgt], "ValueError")
    ELSE IF (src \in places /\ tgt \in places) \/ (src \in transitions /\ tgt \in transitions)
    THEN Raise("add_arc", [src |-> src, tgt |-> tgt], "ValueError")
    ELSE /\ arcs' = Append(arcs, <<src, tgt>>)
         /\ postset' = SetItem(postset, src, postset[src] \cup {tgt})
         /\ preset' = SetItem(preset, tgt, preset[tgt] \cup {src})
         /\ UNCHANGED <<places, transitions, initial_marking>>
         /\ Returned("add_arc", [src |-> src, tgt |-> tgt])

\* a mutation of set_initial_marking: the place is marked for one token only
set_initial_marking_one_only(place_id, tokens) ==
    /\ initial_marking' = IF tokens = 1 THEN initial_marking \cup {place_id}
                          ELSE initial_marking
    /\ UNCHANGED <<places, transitions, arcs, preset, postset>>
    /\ Returned("set_initial_marking", [place_id |-> place_id, tokens |-> tokens])

\* the warning printed for tokens > 1 is not part of the state
set_initial_marking(place_id, tokens) ==
    /\ initial_marking' = IF tokens > 0 THEN initial_marking \cup {place_id}
                          ELSE initial_marking
    /\ UNCHANGED <<places, transitions, arcs, preset, postset>>
    /\ Returned("set_initial_marking", [place_id |-> place_id, tokens |-> tokens])

(***************************************************************************)
(* PetriNet: is_enabled, fire                                              *)
(***************************************************************************)
\* a mutation of is_enabled: any() in place of all()
is_enabled_any(transition, marking) ==
    \E p \in preset[transition] : p \in marking

is_enabled(transition, marking) ==
    \A p \in preset[transition] : p \in marking

\* a mutation of fire: the postset is added before the preset is removed
fire_sub_last(transition, marking) ==
    IF ~is_enabled(transition, marking)
    THEN [err |-> "RuntimeError", val |-> None]
    ELSE [err |-> "none",
          val |-> Some((marking \cup postset[transition]) \ preset[transition])]

\* a mutation of fire: the enabledness check is dropped
fire_unchecked(transition, marking) ==
    [err |-> "none",
     val |-> Some((marking \ preset[transition]) \cup postset[transition])]

\* a mutation of fire: the preset is not removed
fire_no_consume(transition, marking) ==
    IF ~is_enabled(transition, marking)
    THEN [err |-> "RuntimeError", val |-> None]
    ELSE [err |-> "none", val |-> Some(marking \cup postset[transition])]

fire(transition, marking) ==
    IF ~is_enabled(transition, marking)
    THEN [err |-> "RuntimeError", val |-> None]
    ELSE [err |-> "none",
          val |-> Some((marking \ preset[transition]) \cup postset[transition])]

(***************************************************************************)
(* PetriNet.get_reachable_markings: breadth-first search                   *)
(***************************************************************************)
\* a mutation of bfs_try: the successor is appended to the result whether or
\* not it was seen before
bfs_try_append_always(t, m, st) ==
    IF is_enabled(t, m)
    THEN LET next_m == fire(t, m).val[1]
         IN IF next_m \notin st.visited
            THEN [visited |-> st.visited \cup {next_m},
                  queue   |-> Append(st.queue, next_m),
                  result  |-> Append(st.result, next_m)]
            ELSE [st EXCEPT !.result = Append(st.result, next_m)]
    ELSE st

\* a mutation of bfs_try: a new successor is recorded but not enqueued
bfs_try_no_enqueue(t, m, st) ==
    IF is_enabled(t, m)
    THEN LET next_m == fire(t, m).val[1]
         IN IF next_m \notin st.visited
            THEN [visited |-> st.visited \cup {next_m},
                  queue   |-> st.queue,
                  result  |-> Append(st.result, next_m)]
            ELSE st
    ELSE st

\* a mutation of bfs_try: a successor is enqueued whether or not it was seen
\* before
bfs_try_enqueue_always(t, m, st) ==
    IF is_enabled(t, m)
    THEN LET next_m == fire(t, m).val[1]
         IN IF next_m \notin st.visited
            THEN [visited |-> st.visited \cup {next_m},
                  queue   |-> Append(st.queue, next_m),
                  result  |-> Append(st.result, next_m)]
            ELSE [st EXCEPT !.queue = Append(st.queue, next_m)]
    ELSE st

\* lines 73-78: one transition tried on the dequeued marking m
bfs_try(t, m, st) ==
    IF is_enabled(t, m)
    THEN LET next_m == fire(t, m).val[1]
         IN IF next_m \notin st.visited
            THEN [visited |-> st.visited \cup {next_m},
                  queue   |-> Append(st.queue, next_m),
                  result  |-> Append(st.result, next_m)]
            ELSE st
    ELSE st

\* line 72: for t in sorted(self.transitions)
RECURSIVE bfs_for(_, _, _)
bfs_for(ts, m, st) ==
    IF ts = <<>> THEN st
    ELSE bfs_for(Tail(ts), m, bfs_try(Head(ts), m, st))

\* a mutation of bfs_step: the transitions are tried in descending order
bfs_step_descending(st) ==
    LET ts == sorted(transitions)
    IN bfs_for([i \in 1..Len(ts) |-> ts[Len(ts) + 1 - i]], Head(st.queue),
               [st EXCEPT !.queue = Tail(st.queue)])

\* lines 70-78: one iteration of the while loop
bfs_step(st) ==
    bfs_for(sorted(transitions), Head(st.queue), [st EXCEPT !.queue = Tail(st.queue)])

\* lines 69-80
RECURSIVE bfs_while(_)
bfs_while(st) ==
    IF st.queue = <<>> THEN st.result ELSE bfs_while(bfs_step(st))

get_reachable_markings ==
    IF places = {} THEN <<>>
    ELSE LET initial == initial_marking
         IN bfs_while([visited |-> {initial}, queue |-> <<initial>>,
                       result |-> <<initial>>])

(***************************************************************************)
(* bdd.py: symbolic_reachability_bdd                                       *)
(*                                                                         *)
(* A BDD is canonical, so a BDD is modelled by the boolean function it     *)
(* denotes: a function of x_0..x_{n-1} is the set of its satisfying        *)
(* assignments, an assignment being the set of indices i with x_i = 1; a   *)
(* function of X and Y is a set of pairs <<assignment of X, of Y>>.        *)
(***************************************************************************)
\* line 18: places = sorted(petri_net.places), the local list every encoding
\* below is built over (pl); place_to_idx maps pl[i + 1] to i
Idx(pl) == 0..(Len(pl) - 1)
Assignments(pl) == SUBSET Idx(pl)

\* a mutation of R0: every literal is x_i when the marking is not empty
R0_all_marked(pl) ==
    {a \in Assignments(pl) :
        \A i \in Idx(pl) : (i \in a) <=> (initial_marking \cap Range(pl) # {})}

\* lines 33-40: R0 = conjunction of x_i (place i initially marked) or ~x_i
R0(pl) ==
    {a \in Assignments(pl) :
        \A i \in Idx(pl) : (i \in a) <=> (pl[i + 1] \in initial_marking)}

\* a mutation of next_constraint: a place of the preset alone keeps its value
next_constraint_no_consume(t, pl, i, a, b) ==
    LET in_pre == pl[i + 1] \in preset[t]
        in_post == pl[i + 1] \in postset[t]
    IN IF in_pre /\ in_post THEN (i \in a) <=> (i \in b)
       ELSE IF in_pre THEN (i \in a) <=> (i \in b)
       ELSE IF in_post THEN i \in b
       ELSE (i \in a) <=> (i \in b)

\* a mutation of next_constraint: a place in the preset and in the postset is
\* treated as a place of the preset
next_constraint_loop_consumes(t, pl, i, a, b) ==
    LET in_pre == pl[i + 1] \in preset[t]
        in_post == pl[i + 1] \in postset[t]
    IN IF in_pre THEN i \notin b
       ELSE IF in_post THEN i \in b
       ELSE (i \in a) <=> (i \in b)

\* lines 57-75: the constraint of T_t on place i, X = a, Y = b
next_constraint(t, pl, i, a, b) ==
    LET in_pre == pl[i + 1] \in preset[t]
        in_post == pl[i + 1] \in postset[t]
    IN IF in_pre /\ in_post THEN (i \in a) <=> (i \in b)
       ELSE IF in_pre THEN i \notin b
       ELSE IF in_post THEN i \in b
       ELSE (i \in a) <=> (i \in b)

\* lines 49-53: the guard of T_t, all preset variables true
guard(t, pl, a) == \A i \in Idx(pl) : pl[i + 1] \in preset[t] => i \in a

\* a mutation of T_t: the guard is left out of the conjunction
T_t_unguarded(t, pl) ==
    {ab \in Assignments(pl) \X Assignments(pl) :
        \A i \in Idx(pl) : next_constraint(t, pl, i, ab[1], ab[2])}

\* lines 45-79: T_t(X, Y)
T_t(t, pl) ==
    {ab \in Assignments(pl) \X Assignments(pl) :
        /\ guard(t, pl, ab[1])
        /\ \A i \in Idx(pl) : next_constraint(t, pl, i, ab[1], ab[2])}

\* lines 43-82: T_global = OR of the T_t
T_global(pl) == UNION {T_t(t, pl) : t \in transitions}

\* lines 90-92: image = let(rename, exist(X, R & T))
image_of(R, T) == {ab[2] : ab \in {cd \in T : cd[1] \in R}}

\* a mutation of fixpoint_body: R is replaced by the new states
fixpoint_body_replace(R, T) ==
    LET image == image_of(R, T)
        new_states == image \ R
    IN IF new_states = {} THEN [stop |-> TRUE, R |-> R]
       ELSE [stop |-> FALSE, R |-> new_states]

\* lines 89-100: one pass through the body of the loop: break when the image
\* has nothing outside R, else R = R or new_states
fixpoint_body(R, T) ==
    LET image == image_of(R, T)
        new_states == image \ R
    IN IF new_states = {} THEN [stop |-> TRUE, R |-> R]
       ELSE [stop |-> FALSE, R |-> R \cup new_states]

\* lines 88-100: the fixpoint loop
RECURSIVE fixpoint(_, _)
fixpoint(R, T) ==
    LET image == image_of(R, T)
        new_states == image \ R
    IN IF new_states = {} THEN R ELSE fixpoint(R \cup new_states, T)

\* dd: support(u), the variables the function depends on
support(R, pl) ==
    {i \in Idx(pl) : \E a \in Assignments(pl) :
        (a \in R) # (((a \ {i}) \cup ({i} \ a)) \in R)}

\* a mutation of bdd_count: the models are counted over all n place variables
bdd_count_nvars(R, pl) == Cardinality(R)

\* line 103: bdd.count(R) with no nvars counts the models over support(R)
bdd_count(R, pl) ==
    LET s == support(R, pl) IN Cardinality({a \cap s : a \in R})

\* lines 8-104; the result is (R, count), the time and the manager left out
symbolic_reachability_bdd ==
    IF places = {} THEN [R |-> {}, count |-> 0]
    ELSE LET pl == sorted(places)
             T == T_global(pl)
             R == fixpoint(R0(pl), T)
         IN [R |-> R, count |-> bdd_count(R, pl)]

\* bdd_manager.pick_iter(R, care_vars=x_vars) (deadlock_detection.py lines 97,
\* 178): the satisfying assignments of R as dicts that give a value to every
\* place variable, those outside the support of R included
pick_iter(R, pl) == {[i \in Idx(pl) |-> i \in a] : a \in R}

\* deadlock_detection.py lines 189-193: places[i] is marked iff
\* assignment.get(x_vars[i], 0) == 1
marking_of(assignment, pl) ==
    {pl[i + 1] : i \in {j \in Idx(pl) : j \in DOMAIN assignment /\ assignment[j]}}

(***************************************************************************)
(* deadlock_detection.py. HAS_PULP is the module's global of that name:    *)
(* whether "from pulp import ..." succeeded when the module was loaded.    *)
(***************************************************************************)
\* a mutation of is_deadlock_explicit: a transition with an empty preset is
\* passed over
is_deadlock_explicit_skip_empty(marking) ==
    \A t \in transitions : preset[t] # {} => ~is_enabled(t, marking)

\* lines 24-31: no transition is enabled in the marking
is_deadlock_explicit(marking) ==
    \A t \in transitions : ~is_enabled(t, marking)

\* a mutation of first_deadlock: the scan runs to the end of the list and keeps
\* the last deadlock it met
RECURSIVE first_deadlock_keep_last(_)
first_deadlock_keep_last(reachable) ==
    IF reachable = <<>> THEN None
    ELSE IF first_deadlock_keep_last(Tail(reachable)) # None
         THEN first_deadlock_keep_last(Tail(reachable))
    ELSE IF is_deadlock_explicit(Head(reachable)) THEN Some(Head(reachable))
    ELSE None

\* lines 40-43: the first deadlock of the list, or None
RECURSIVE first_deadlock(_)
first_deadlock(reachable) ==
    IF reachable = <<>> THEN None
    ELSE IF is_deadlock_explicit(Head(reachable)) THEN Some(Head(reachable))
    ELSE first_deadlock(Tail(reachable))

find_deadlock_explicit == first_deadlock(get_reachable_markings)

\* a mutation of ilp_feasible: every transition gets its deadlock constraint,
\* an empty preset giving 0 <= -1
ilp_feasible_all_transitions(R, pl) ==
    {M \in {marking_of(a, pl) : a \in pick_iter(R, pl)} :
        \A t \in transitions :
            Cardinality(preset[t] \cap M) <= Cardinality(preset[t]) - 1}

\* lines 82-138: the markings M that satisfy the integer program: M equals the
\* satisfying assignment its one-hot indicator selects, and for every
\* transition with a non-empty preset, sum of M[p] over the preset is at most
\* |preset| - 1; transitions with an empty preset add no constraint
ilp_feasible(R, pl) ==
    {M \in {marking_of(a, pl) : a \in pick_iter(R, pl)} :
        \A t \in transitions :
            preset[t] # {} =>
                Cardinality(preset[t] \cap M) <= Cardinality(preset[t]) - 1}

\* lines 46-152: what find_deadlock_ilp_bdd can return: it raises when PuLP
\* could not be imported; else the solver hands back any feasible point, or
\* reports the program infeasible
find_deadlock_ilp_bdd(R) ==
    IF ~HAS_PULP THEN {[err |-> "RuntimeError", val |-> None]}
    ELSE IF places = {} THEN {[err |-> "none", val |-> None]}
    ELSE LET pl == sorted(places)
         IN IF pick_iter(R, pl) = {} THEN {[err |-> "none", val |-> None]}
            ELSE IF ilp_feasible(R, pl) = {} THEN {[err |-> "none", val |-> None]}
            ELSE {[err |-> "none", val |-> Some(M)] : M \in ilp_feasible(R, pl)}

\* a mutation of compact_candidates: the cross-check against the explicit
\* reachable set is dropped
compact_candidates_unverified(R, pl, explicit_reachable) ==
    {m \in {marking_of(a, pl) : a \in pick_iter(R, pl)} :
        ~(\E t \in transitions : is_enabled(t, m))}

\* lines 187-214: the candidates the scan can stop at: in the explicit
\* reachable set, and enabling no transition
compact_candidates(R, pl, explicit_reachable) ==
    {m \in {marking_of(a, pl) : a \in pick_iter(R, pl)} :
        /\ m \in explicit_reachable
        /\ ~(\E t \in transitions : is_enabled(t, m))}

\* lines 155-216: what find_deadlock_ilp_bdd_compact can return: it raises
\* when PuLP could not be imported; else the first candidate in pick_iter's
\* order, an order the library chooses
find_deadlock_ilp_bdd_compact(R) ==
    IF ~HAS_PULP THEN {[err |-> "RuntimeError", val |-> None]}
    ELSE LET explicit_reachable == Range(get_reachable_markings)
             pl == sorted(places)
             cands == compact_candidates(R, pl, explicit_reachable)
         IN IF pick_iter(R, pl) = {} THEN {[err |-> "none", val |-> None]}
            ELSE IF cands = {} THEN {[err |-> "none", val |-> None]}
            ELSE {[err |-> "none", val |-> Some(m)] : m \in cands}

\* a mutation of compact_scan: the cross-check against the explicit reachable
\* set is dropped
RECURSIVE compact_scan_unverified(_, _, _)
compact_scan_unverified(satisfying, pl, explicit_reachable) ==
    IF satisfying = <<>> THEN None
    ELSE LET marking == marking_of(Head(satisfying), pl)
         IN IF ~(\E t \in transitions : is_enabled(t, marking)) THEN Some(marking)
            ELSE compact_scan_unverified(Tail(satisfying), pl, explicit_reachable)

\* lines 184-216: the scan over the list pick_iter gave, in the list's order: a
\* marking outside the explicit reachable set is passed over (continue), the
\* first one left that enables no transition is returned, None after the loop
RECURSIVE compact_scan(_, _, _)
compact_scan(satisfying, pl, explicit_reachable) ==
    IF satisfying = <<>> THEN None
    ELSE LET marking == marking_of(Head(satisfying), pl)
         IN IF marking \notin explicit_reachable
            THEN compact_scan(Tail(satisfying), pl, explicit_reachable)
            ELSE IF ~(\E t \in transitions : is_enabled(t, marking)) THEN Some(marking)
            ELSE compact_scan(Tail(satisfying), pl, explicit_reachable)

Methods == {"explicit", "bdd", "bdd_compact", "other"}

\* lines 219-261: the possible results of detect_deadlock(pn, method), the
\* elapsed time left out
detect_deadlock(method) ==
    IF method = "explicit"
    THEN {[err |-> "none", val |-> find_deadlock_explicit]}
    ELSE IF method \in {"bdd", "bdd_compact"}
    THEN LET R_bdd == symbolic_reachability_bdd.R
         IN IF method = "bdd"
            THEN find_deadlock_ilp_bdd(R_bdd)
            ELSE find_deadlock_ilp_bdd_compact(R_bdd)
    ELSE {[err |-> "ValueError", val |-> None]}

(***************************************************************************)
(* optimization.py. The module imports pulp at its top (line 5), outside   *)
(* any try: where PuLP cannot be imported, loading the module raises       *)
(* ImportError and neither optimizer can be called.                        *)
(***************************************************************************)
\* line 38: c = {p: weights.get(p, 0) for p in places}
c_of(weights) ==
    [p \in places |-> IF p \in DOMAIN weights THEN weights[p] ELSE 0]

\* line 46: sum(c[p] for p in marking); c[p] raises KeyError off the places
RECURSIVE sum_c(_, _)
sum_c(c, marking) ==
    IF marking = {} THEN 0
    ELSE LET p == CHOOSE q \in marking : TRUE
         IN c[p] + sum_c(c, marking \ {p})

\* a mutation of best_init: best_value starts at 0
best_init_zero == [marking |-> None, value |-> 0, neg_inf |-> FALSE]

\* lines 41-42: best_marking = None, best_value = float('-inf')
best_init == [marking |-> None, value |-> 0, neg_inf |-> TRUE]

\* lines 44-50: the scan; a marking replaces the best only when its value is
\* strictly greater
RECURSIVE scan_best(_, _, _)
scan_best(c, reachable, best) ==
    IF reachable = <<>> THEN best
    ELSE LET value == sum_c(c, Head(reachable))
         IN IF best.neg_inf \/ value > best.value
            THEN scan_best(c, Tail(reachable),
                           [marking |-> Some(Head(reachable)), value |-> value,
                            neg_inf |-> FALSE])
            ELSE scan_best(c, Tail(reachable), best)

\* lines 9-54: (optimal_marking, optimal_value), the time left out
optimize_reachable_markings_bruteforce(weights) ==
    LET reachable_markings == get_reachable_markings
    IN IF ~HAS_PULP
       THEN [err |-> "ImportError", marking |-> None, value |-> 0]
       ELSE IF reachable_markings = <<>>
       THEN [err |-> "none", marking |-> None, value |-> 0]
       ELSE IF \E i \in 1..Len(reachable_markings) : ~(reachable_markings[i] \subseteq places)
       THEN [err |-> "KeyError", marking |-> None, value |-> 0]
       ELSE LET best == scan_best(c_of(weights), reachable_markings, best_init)
            IN [err |-> "none", marking |-> best.marking, value |-> best.value]

\* lines 57-120: the possible results of the one-hot selection program; the
\* solver hands back any optimal solution: one index i of maximal value
optimize_reachable_markings_ilp(weights) ==
    LET reachable_markings == get_reachable_markings
    IN IF ~HAS_PULP
       THEN {[err |-> "ImportError", marking |-> None, value |-> 0]}
       ELSE IF reachable_markings = <<>>
       THEN {[err |-> "none", marking |-> None, value |-> 0]}
       ELSE IF \E i \in 1..Len(reachable_markings) : ~(reachable_markings[i] \subseteq places)
       THEN {[err |-> "KeyError", marking |-> None, value |-> 0]}
       ELSE LET c == c_of(weights)
                marking_values == [i \in 1..Len(reachable_markings) |->
                                      sum_c(c, reachable_markings[i])]
                optimal == {i \in 1..Len(reachable_markings) :
                               \A j \in 1..Len(reachable_markings) :
                                   marking_values[j] <= marking_values[i]}
            IN {[err |-> "none", marking |-> Some(reachable_markings[i]),
                 value |-> marking_values[i]] : i \in optimal}

(***************************************************************************)
(* Nets under analysis                                                     *)
(***************************************************************************)
Prefix(k) == {PlaceNames[i] : i \in 1..k}

\* the arcs of a net with places P and transitions T
PossibleArcs(P, T) == (P \X T) \cup (T \X P)

RECURSIVE ArcList(_)
ArcList(A) ==
    IF A = {} THEN <<>>
    ELSE LET a == CHOOSE x \in A : \A y \in A :
                    \/ Rank(x[1]) < Rank(y[1])
                    \/ (x[1] = y[1] /\ Rank(x[2]) <= Rank(y[2]))
         IN <<a>> \o ArcList(A \ {a})

\* a net of at most max_places places and max_arcs arcs, with any initial
\* marking
NetUpTo(max_places, max_arcs) ==
    /\ \E k \in 0..max_places : places = Prefix(k)
    /\ transitions \in {{}, {"T0"}, TransIds}
    /\ \E A \in SUBSET PossibleArcs(places, transitions) :
          /\ Cardinality(A) <= max_arcs
          /\ arcs = ArcList(A)
          /\ preset = [n \in places \cup transitions |-> {a[1] : a \in {b \in A : b[2] = n}}]
          /\ postset = [n \in places \cup transitions |-> {a[2] : a \in {b \in A : b[1] = n}}]
    /\ initial_marking \in SUBSET (places \cup {Undeclared})

SomeNet == NetUpTo(MaxPlaces, MaxArcs)

\* the analyses of a net, PuLP installed
Init ==
    /\ SomeNet
    /\ HAS_PULP = TRUE
    /\ bfs = None
    /\ fix = None
    /\ dbfs = None
    /\ lib = None
    /\ op = "none"
    /\ arg = <<>>
    /\ ret = <<>>

(***************************************************************************)
(* Calls                                                                   *)
(***************************************************************************)
\* pn.fire(t, m)
Fire ==
    /\ op = "none"
    /\ \E t \in transitions, m \in SUBSET (places \cup {Undeclared}) :
        /\ op' = "fire"
        /\ arg' = [transition |-> t, marking |-> m]
        /\ ret' = fire(t, m)
        /\ UNCHANGED <<netvars, HAS_PULP, bfs, fix, dbfs, lib>>

\* a mutation of GetReachableMarkings: the search moves the net's own
\* initial marking along, leaving it at the last marking it found
GetReachableMarkings_in_place ==
    /\ op = "none"
    /\ op' = "get_reachable_markings"
    /\ arg' = <<>>
    /\ ret' = get_reachable_markings
    /\ initial_marking' = IF get_reachable_markings = <<>> THEN initial_marking
                          ELSE get_reachable_markings[Len(get_reachable_markings)]
    /\ UNCHANGED <<places, transitions, arcs, preset, postset, HAS_PULP, bfs, fix, dbfs, lib>>

\* pn.get_reachable_markings()
GetReachableMarkings ==
    /\ op = "none"
    /\ op' = "get_reachable_markings"
    /\ arg' = <<>>
    /\ ret' = get_reachable_markings
    /\ UNCHANGED <<netvars, HAS_PULP, bfs, fix, dbfs, lib>>

\* test_reachability.test_case: both explorers on the same net, counts compared
TestCase ==
    /\ op = "none"
    /\ op' = "test_case"
    /\ arg' = <<>>
    /\ LET R_exp == get_reachable_markings
           sym == symbolic_reachability_bdd
       IN ret' = [R_exp |-> R_exp, n_exp |-> Len(R_exp),
                  R_bdd |-> sym.R, n_bdd |-> sym.count]
    /\ UNCHANGED <<netvars, HAS_PULP, bfs, fix, dbfs, lib>>

\* detect_deadlock(pn, method)
DetectDeadlock ==
    /\ op = "none"
    /\ \E method \in Methods : \E r \in detect_deadlock(method) :
        /\ op' = "detect_deadlock"
        /\ arg' = [method |-> method]
        /\ ret' = r
    /\ UNCHANGED <<netvars, HAS_PULP, bfs, fix, dbfs, lib>>

\* test_deadlock.run_test: 'explicit' and 'bdd_compact' on the same net, the
\* two verdicts compared
RunTest ==
    /\ op = "none"
    /\ \E r1 \in detect_deadlock("explicit") : \E r2 \in detect_deadlock("bdd_compact") :
        /\ op' = "run_test"
        /\ arg' = <<>>
        /\ ret' = [explicit |-> r1.val, bdd_compact |-> r2.val]
    /\ UNCHANGED <<netvars, HAS_PULP, bfs, fix, dbfs, lib>>

\* main.py lines 241-282: both optimizers on the same net and weights, the two
\* optimal values compared
Optimize ==
    /\ op = "none"
    /\ \E D \in SUBSET places : \E weights \in [D -> WeightValues] :
        \E r2 \in optimize_reachable_markings_ilp(weights) :
        /\ op' = "optimize"
        /\ arg' = [weights |-> weights]
        /\ ret' = [bf |-> optimize_reachable_markings_bruteforce(weights), ilp |-> r2]
    /\ UNCHANGED <<netvars, HAS_PULP, bfs, fix, dbfs, lib>>

\* the caller drops the result of the last call, once the call has returned
Discard ==
    /\ op \notin {"none", "bfs_loop", "fixpoint_loop", "bfs_reachability_loop"}
    /\ op' = "none"
    /\ arg' = <<>>
    /\ ret' = <<>>
    /\ UNCHANGED <<netvars, HAS_PULP, bfs, fix, dbfs, lib>>

Next ==
    \/ Fire
    \/ GetReachableMarkings
    \/ TestCase
    \/ DetectDeadlock
    \/ RunTest
    \/ Optimize
    \/ Discard

Spec == Init /\ [][Next]_vars

(***************************************************************************)
(* The deadlock finders and the optimizers where PuLP may be missing.      *)
(***************************************************************************)
\* deadlock_detection.py lines 16-21: the import succeeded, or it did not
InitEnv ==
    /\ SomeNet
    /\ HAS_PULP \in BOOLEAN
    /\ bfs = None
    /\ fix = None
    /\ dbfs = None
    /\ lib = None
    /\ op = "none"
    /\ arg = <<>>
    /\ ret = <<>>

NextEnv ==
    \/ DetectDeadlock
    \/ RunTest
    \/ Optimize
    \/ Discard

SpecEnv == InitEnv /\ [][NextEnv]_vars

(***************************************************************************)
(* The PetriNet class on its own: a net built from PetriNet() by its       *)
(* construction operations, with fire and get_reachable_markings called on *)
(* whatever has been built so far.                                         *)
(***************************************************************************)
\* lines 9-16: PetriNet()
InitNet ==
    /\ places = {}
    /\ transitions = {}
    /\ arcs = <<>>
    /\ preset = <<>>
    /\ postset = <<>>
    /\ initial_marking = {}
    /\ HAS_PULP = TRUE
    /\ bfs = None
    /\ fix = None
    /\ dbfs = None
    /\ lib = None
    /\ op = "none"
    /\ arg = <<>>
    /\ ret = <<>>

AddPlace == op = "none" /\ \E pid \in BuildIds : add_place(pid)

AddTransition == op = "none" /\ \E tid \in BuildIds : add_transition(tid)

AddArc ==
    /\ op = "none"
    /\ Len(arcs) < MaxArcs
    /\ \E src \in BuildIds, tgt \in BuildIds : add_arc(src, tgt)

SetInitialMarking ==
    /\ op = "none"
    /\ \E place_id \in BuildIds, tokens \in TokenValues :
          set_initial_marking(place_id, tokens)

NextNet ==
    \/ AddPlace
    \/ AddTransition
    \/ AddArc
    \/ SetInitialMarking
    \/ Fire
    \/ GetReachableMarkings
    \/ Discard

SpecNet == InitNet /\ [][NextNet]_vars

(***************************************************************************)
(* get_reachable_markings step by step: one step per iteration of its      *)
(* while loop. bfs holds the locals of the running call (visited, queue,   *)
(* result) and the number of markings dequeued so far.                     *)
(***************************************************************************)
InitBfs ==
    /\ NetUpTo(MaxPlaces, MaxBfsArcs)
    /\ HAS_PULP = TRUE
    /\ bfs = None
    /\ fix = None
    /\ dbfs = None
    /\ lib = None
    /\ op = "none"
    /\ arg = <<>>
    /\ ret = <<>>

\* lines 61-67: the early return for a net with no places, or the locals set up
BfsStart ==
    /\ op = "none"
    /\ IF places = {}
       THEN /\ op' = "get_reachable_markings"
            /\ ret' = <<>>
            /\ bfs' = None
       ELSE /\ op' = "bfs_loop"
            /\ ret' = <<>>
            /\ bfs' = Some([st |-> [visited |-> {initial_marking},
                                    queue |-> <<initial_marking>>,
                                    result |-> <<initial_marking>>],
                            dequeued |-> 0])
    /\ arg' = <<>>
    /\ UNCHANGED <<netvars, HAS_PULP, fix, dbfs, lib>>

\* lines 69-78: while queue: m = queue.popleft(); for t in sorted(...)
BfsIterate ==
    /\ op = "bfs_loop"
    /\ bfs[1].st.queue # <<>>
    /\ bfs' = Some([st |-> bfs_step(bfs[1].st), dequeued |-> bfs[1].dequeued + 1])
    /\ UNCHANGED <<netvars, HAS_PULP, fix, dbfs, lib, op, arg, ret>>

\* line 80: return result, once the queue is empty
BfsReturn ==
    /\ op = "bfs_loop"
    /\ bfs[1].st.queue = <<>>
    /\ op' = "get_reachable_markings"
    /\ ret' = bfs[1].st.result
    /\ bfs' = None
    /\ UNCHANGED <<netvars, HAS_PULP, fix, dbfs, lib, arg>>

NextBfs ==
    \/ BfsStart
    \/ BfsIterate
    \/ BfsReturn
    \/ Discard

\* a call that has started runs on: the loop is sequential code
SpecBfs ==
    /\ InitBfs
    /\ [][NextBfs]_vars
    /\ WF_vars(BfsIterate \/ BfsReturn)

(***************************************************************************)
(* The nets of the test suites (test_reachability.py, test_deadlock.py):   *)
(* what each builder returns, the presets and postsets being what its      *)
(* add_arc calls leave.                                                    *)
(***************************************************************************)
Built(P, T, A, m0) ==
    [places |-> P, transitions |-> T, arcs |-> A,
     preset |-> [n \in P \cup T |-> {a[1] : a \in {b \in Range(A) : b[2] = n}}],
     postset |-> [n \in P \cup T |-> {a[2] : a \in {b \in Range(A) : b[1] = n}}],
     initial_marking |-> m0]

\* P0 -> T0 -> P1 -> ... -> P(n-1), initial marking {P0}
build_linear_chain(n) ==
    Built({PlaceNames[i + 1] : i \in 0..(n - 1)},
          {TransNames[i + 1] : i \in 0..(n - 2)},
          [j \in 1..(2 * (n - 1)) |->
              IF j % 2 = 1 THEN <<PlaceNames[(j + 1) \div 2], TransNames[(j + 1) \div 2]>>
              ELSE <<TransNames[j \div 2], PlaceNames[j \div 2 + 1]>>],
          {"P0"})

\* test_reachability.py lines 43-44: the names f"T{i}_0", f"T{i}_1" of
\* branching i (row i + 1)
SplitTransNames == << <<"T0_0", "T0_1">>, <<"T1_0", "T1_1">>, <<"T2_0", "T2_1">>,
                      <<"T3_0", "T3_1">>, <<"T4_0", "T4_1">> >>

\* P0 -> (T0_0 or T0_1) -> P1 -> ... -> Pk, initial marking {P0}
build_xor_split(k) ==
    Built({PlaceNames[i + 1] : i \in 0..k},
          {SplitTransNames[i][j] : i \in 1..k, j \in 1..2},
          [n \in 1..(4 * k) |->
              LET i == (n - 1) \div 4 + 1
                  a == (n - 1) % 4
              IN IF a = 0 THEN <<PlaceNames[i], SplitTransNames[i][1]>>
                 ELSE IF a = 1 THEN <<PlaceNames[i], SplitTransNames[i][2]>>
                 ELSE IF a = 2 THEN <<SplitTransNames[i][1], PlaceNames[i + 1]>>
                 ELSE <<SplitTransNames[i][2], PlaceNames[i + 1]>>],
          {"P0"})

\* a single marked place P, no transition
build_no_transition ==
    Built({"P"}, {}, <<>>, {"P"})

\* P0 marked; Tdead waits for the unmarked P1
build_dead_transition ==
    Built({"P0", "P1"}, {"Tdead"}, <<(<<"P1", "Tdead">>)>>, {"P0"})

\* k independent loops Pi <-> Ti, every Pi marked
build_parallel_net(k) ==
    Built({PlaceNames[i + 1] : i \in 0..(k - 1)},
          {TransNames[i + 1] : i \in 0..(k - 1)},
          [j \in 1..(2 * k) |->
              IF j % 2 = 1 THEN <<PlaceNames[(j + 1) \div 2], TransNames[(j + 1) \div 2]>>
              ELSE <<TransNames[j \div 2], PlaceNames[j \div 2]>>],
          {PlaceNames[i + 1] : i \in 0..(k - 1)})

\* test_reachability.py lines 100-104: the names f"P{i}_0", f"P{i}_1",
\* f"P{i}_2" and f"T{i}_1", f"T{i}_2" of chain i (row i + 1)
ChainPlaceNames == << <<"P0_0", "P0_1", "P0_2">>, <<"P1_0", "P1_1", "P1_2">>,
                      <<"P2_0", "P2_1", "P2_2">> >>
ChainTransNames == << <<"T0_1", "T0_2">>, <<"T1_1", "T1_2">>, <<"T2_1", "T2_2">> >>

\* a mutation of build_parallel_chains: the arcs Pi_1 -> Ti_2 -> Pi_2 are left
\* out
build_parallel_chains_short(n) ==
    Built({ChainPlaceNames[i][j] : i \in 1..n, j \in 1..3},
          {ChainTransNames[i][j] : i \in 1..n, j \in 1..2},
          [k \in 1..(2 * n) |->
              LET i == (k - 1) \div 2 + 1
              IN IF (k - 1) % 2 = 0
                 THEN <<ChainPlaceNames[i][1], ChainTransNames[i][1]>>
                 ELSE <<ChainTransNames[i][1], ChainPlaceNames[i][2]>>],
          {ChainPlaceNames[i][1] : i \in 1..n})

\* n independent chains Pi_0 -> Ti_1 -> Pi_1 -> Ti_2 -> Pi_2, every Pi_0
\* marked
build_parallel_chains(n) ==
    Built({ChainPlaceNames[i][j] : i \in 1..n, j \in 1..3},
          {ChainTransNames[i][j] : i \in 1..n, j \in 1..2},
          [k \in 1..(4 * n) |->
              LET i == (k - 1) \div 4 + 1
                  a == (k - 1) % 4
              IN IF a = 0 THEN <<ChainPlaceNames[i][1], ChainTransNames[i][1]>>
                 ELSE IF a = 1 THEN <<ChainTransNames[i][1], ChainPlaceNames[i][2]>>
                 ELSE IF a = 2 THEN <<ChainPlaceNames[i][2], ChainTransNames[i][2]>>
                 ELSE <<ChainTransNames[i][2], ChainPlaceNames[i][3]>>],
          {ChainPlaceNames[i][1] : i \in 1..n})

\* P1 -> T1 -> P2, P3 isolated, P1 marked
build_simple_deadlock ==
    Built({"P1", "P2", "P3"}, {"T1"}, <<(<<"P1", "T1">>), (<<"T1", "P2">>)>>, {"P1"})

\* the cycle P1 <-> T1, P1 marked
build_no_deadlock ==
    Built({"P1"}, {"T1"}, <<(<<"P1", "T1">>), (<<"T1", "P1">>)>>, {"P1"})

build_dining_philosophers_2 ==
    Built({"Think1", "Think2", "Eat1", "Eat2", "Fork1", "Fork2"},
          {"Pickup1", "Release1", "Pickup2", "Release2"},
          << <<"Think1", "Pickup1">>, <<"Fork1", "Pickup1">>, <<"Fork2", "Pickup1">>,
             <<"Pickup1", "Eat1">>,
             <<"Eat1", "Release1">>, <<"Release1", "Think1">>,
             <<"Release1", "Fork1">>, <<"Release1", "Fork2">>,
             <<"Think2", "Pickup2">>, <<"Fork2", "Pickup2">>, <<"Fork1", "Pickup2">>,
             <<"Pickup2", "Eat2">>,
             <<"Eat2", "Release2">>, <<"Release2", "Think2">>,
             <<"Release2", "Fork2">>, <<"Release2", "Fork1">> >>,
          {"Think1", "Think2", "Fork1", "Fork2"})

build_xor_deadlock ==
    Built({"P0", "P1", "P2", "P3"}, {"T1a", "T1b", "T2"},
          << <<"P0", "T1a">>, <<"T1a", "P1">>, <<"P0", "T1b">>, <<"T1b", "P2">>,
             <<"P1", "T2">>, <<"P2", "T2">>, <<"T2", "P3">> >>,
          {"P0"})

\* the net under analysis is pn
IsNet(pn) ==
    /\ places = pn.places
    /\ transitions = pn.transitions
    /\ arcs = pn.arcs
    /\ preset = pn.preset
    /\ postset = pn.postset
    /\ initial_marking = pn.initial_marking

TestNets ==
    {build_linear_chain(n) : n \in 1..MaxChain}
        \cup {build_xor_split(k) : k \in 1..MaxSplit}
        \cup {build_parallel_net(k) : k \in 1..MaxLoops}
        \cup {build_no_transition, build_dead_transition}
        \cup {build_simple_deadlock, build_no_deadlock,
              build_dining_philosophers_2, build_xor_deadlock}

InitTests ==
    /\ \E pn \in TestNets : IsNet(pn)
    /\ HAS_PULP = TRUE
    /\ bfs = None
    /\ fix = None
    /\ dbfs = None
    /\ lib = None
    /\ op = "none"
    /\ arg = <<>>
    /\ ret = <<>>

NextTests ==
    \/ Fire
    \/ GetReachableMarkings
    \/ TestCase
    \/ DetectDeadlock
    \/ RunTest
    \/ Discard

SpecTests == InitTests /\ [][NextTests]_vars

(***************************************************************************)
(* The deadlock finders called one by one.                                 *)
(***************************************************************************)
\* is_deadlock_explicit(pn, marking)
IsDeadlockExplicit ==
    /\ op = "none"
    /\ \E m \in SUBSET (places \cup {Undeclared}) :
        /\ op' = "is_deadlock_explicit"
        /\ arg' = [marking |-> m]
        /\ ret' = is_deadlock_explicit(m)
    /\ UNCHANGED <<netvars, HAS_PULP, bfs, fix, dbfs, lib>>

\* find_deadlock_explicit(pn)
FindDeadlockExplicit ==
    /\ op = "none"
    /\ op' = "find_deadlock_explicit"
    /\ arg' = <<>>
    /\ ret' = find_deadlock_explicit
    /\ UNCHANGED <<netvars, HAS_PULP, bfs, fix, dbfs, lib>>

NextDeadlock ==
    \/ IsDeadlockExplicit
    \/ FindDeadlockExplicit
    \/ Discard

SpecDeadlock == Init /\ [][NextDeadlock]_vars

(***************************************************************************)
(* find_deadlock_ilp_bdd_compact on a reachable-set function of the        *)
(* caller's choice.                                                        *)
(***************************************************************************)
InitScan ==
    /\ NetUpTo(MaxPlaces, MaxScanArcs)
    /\ HAS_PULP = TRUE
    /\ bfs = None
    /\ fix = None
    /\ dbfs = None
    /\ lib = None
    /\ op = "none"
    /\ arg = <<>>
    /\ ret = <<>>

\* the lists pick_iter can give for a function with the satisfying
\* assignments S: every assignment once, in an order the library chooses
Orders(S) ==
    {s \in UNION {[1..n -> S] : n \in 0..MaxCandidates} :
        Len(s) = Cardinality(S) /\ Range(s) = S}

\* find_deadlock_ilp_bdd_compact(pn, reachable_bdd, bdd_manager)
FindDeadlockCompact ==
    /\ op = "none"
    /\ \E R \in SUBSET Assignments(sorted(places)) :
        /\ Cardinality(R) <= MaxCandidates
        /\ \E satisfying \in Orders(pick_iter(R, sorted(places))) :
            /\ op' = "find_deadlock_ilp_bdd_compact"
            /\ arg' = [reachable_bdd |-> R, satisfying |-> satisfying]
            /\ ret' = IF ~HAS_PULP THEN [err |-> "RuntimeError", val |-> None]
                      ELSE [err |-> "none",
                            val |-> compact_scan(satisfying, sorted(places),
                                                 Range(get_reachable_markings))]
    /\ UNCHANGED <<netvars, HAS_PULP, bfs, fix, dbfs, lib>>

NextScan ==
    \/ FindDeadlockCompact
    \/ Discard

SpecScan == InitScan /\ [][NextScan]_vars

(***************************************************************************)
(* Every analysis of a net, called again and again on the same net.        *)
(***************************************************************************)
\* pn.is_enabled(transition, marking)
IsEnabled ==
    /\ op = "none"
    /\ \E t \in transitions, m \in SUBSET (places \cup {Undeclared}) :
        /\ op' = "is_enabled"
        /\ arg' = [transition |-> t, marking |-> m]
        /\ ret' = is_enabled(t, m)
    /\ UNCHANGED <<netvars, HAS_PULP, bfs, fix, dbfs, lib>>

NextFrame ==
    \/ IsEnabled
    \/ Fire
    \/ GetReachableMarkings
    \/ TestCase
    \/ DetectDeadlock
    \/ Optimize
    \/ Discard

SpecFrame == InitBfs /\ [][NextFrame]_vars

(***************************************************************************)
(* Every analysis called, and then called once more on the same net.       *)
(***************************************************************************)
\* dd and the ILP solver are deterministic programs: whenever a call leaves
\* them a choice among several markings (the order of pick_iter, one of
\* several feasible or optimal solutions) they take the same one for the same
\* input. lib is the rule they follow in one run: the markings are compared
\* place by place in the order lib.order (the sorted places, from the first
\* or from the last), a marked place first iff lib.high
Libraries ==
    LET pl == sorted(places)
    IN {[order |-> o, high |-> h] :
           o \in {pl, [i \in 1..Len(pl) |-> pl[Len(pl) + 1 - i]]}, h \in BOOLEAN}

\* the position of the marking m under the rule lib (smaller is preferred)
RECURSIVE lib_rank(_, _)
lib_rank(order, m) ==
    IF order = <<>> THEN 0
    ELSE (IF (Head(order) \in m) = lib.high THEN 0 ELSE 2 ^ (Len(order) - 1))
            + lib_rank(Tail(order), m)

lib_key(x) == IF x = None THEN 0 - 1 ELSE lib_rank(lib.order, x[1])

\* what detect_deadlock(pn, method) returns with the library lib
detect_deadlock_lib(method) ==
    LET S == detect_deadlock(method)
    IN CHOOSE r \in S : \A q \in S : lib_key(r.val) <= lib_key(q.val)

\* what optimize_reachable_markings_ilp(pn, weights) returns with the library
\* lib
optimize_ilp_lib(weights) ==
    LET S == optimize_reachable_markings_ilp(weights)
    IN CHOOSE r \in S : \A q \in S : lib_key(r.marking) <= lib_key(q.marking)

\* the call (o, a) made on the net as it is now
Recall(o, a) ==
    CASE o = "is_enabled" -> is_enabled(a.transition, a.marking)
      [] o = "fire" -> fire(a.transition, a.marking)
      [] o = "get_reachable_markings" -> get_reachable_markings
      [] o = "test_case" ->
            LET R_exp == get_reachable_markings
                sym == symbolic_reachability_bdd
            IN [R_exp |-> R_exp, n_exp |-> Len(R_exp),
                R_bdd |-> sym.R, n_bdd |-> sym.count]
      [] o = "detect_deadlock" -> detect_deadlock_lib(a.method)
      [] o = "optimize" ->
            [bf |-> optimize_reachable_markings_bruteforce(a.weights),
             ilp |-> optimize_ilp_lib(a.weights)]

FrameCalls == {"is_enabled", "fire", "get_reachable_markings", "test_case",
               "detect_deadlock", "optimize"}

\* the analysis that has just returned is called once more, with the same
\* arguments, on the net as the first call left it; both results are kept
Again ==
    /\ op \in FrameCalls
    /\ op' = "again"
    /\ arg' = [op |-> op, arg |-> arg]
    /\ ret' = [first |-> ret, second |-> Recall(op, arg)]
    /\ UNCHANGED <<netvars, HAS_PULP, bfs, fix, dbfs, lib>>

\* nets as parse_pnml builds them: every marked place is declared
InitRepeat ==
    /\ NetUpTo(MaxPlaces, MaxRepeatArcs)
    /\ initial_marking \subseteq places
    /\ HAS_PULP = TRUE
    /\ bfs = None
    /\ fix = None
    /\ dbfs = None
    /\ lib \in Libraries
    /\ op = "none"
    /\ arg = <<>>
    /\ ret = <<>>

NextRepeat ==
    \/ IsEnabled
    \/ Fire
    \/ GetReachableMarkings
    \/ TestCase
    \/ (DetectDeadlock /\ ret' = detect_deadlock_lib(arg'.method))
    \/ (Optimize /\ ret'.ilp = optimize_ilp_lib(arg'.weights))
    \/ Again
    \/ Discard

SpecRepeat == InitRepeat /\ [][NextRepeat]_vars

(***************************************************************************)
(* symbolic_reachability_bdd, one pass of its fixpoint loop at a time. fix *)
(* holds the local R of the running call and the number of passes that     *)
(* ended without a break.                                                  *)
(***************************************************************************)
\* bdd.py lines 13-40 and 43-86: the early return for a net without places,
\* else R = R0 and T_global built, the loop about to start
FixStart ==
    /\ op = "none"
    /\ IF places = {}
       THEN /\ op' = "symbolic_reachability_bdd"
            /\ ret' = [R |-> {}, count |-> 0]
            /\ fix' = None
       ELSE /\ op' = "fixpoint_loop"
            /\ ret' = <<>>
            /\ fix' = Some([R |-> R0(sorted(places)), passes |-> 0])
    /\ arg' = <<>>
    /\ UNCHANGED <<netvars, HAS_PULP, bfs, dbfs, lib>>

\* lines 88-100: a pass that finds new states and goes round again
FixIterate ==
    /\ op = "fixpoint_loop"
    /\ \E pl \in {sorted(places)} : \E T \in {T_global(pl)} :
       \E body \in {fixpoint_body(fix[1].R, T)} :
          /\ ~body.stop
          /\ fix' = Some([R |-> body.R, passes |-> fix[1].passes + 1])
    /\ UNCHANGED <<netvars, HAS_PULP, bfs, dbfs, lib, op, arg, ret>>

\* lines 88-98 and 102-104: the pass that breaks, then count and return
FixReturn ==
    /\ op = "fixpoint_loop"
    /\ \E pl \in {sorted(places)} : \E T \in {T_global(pl)} :
       \E body \in {fixpoint_body(fix[1].R, T)} :
          /\ body.stop
          /\ ret' = [R |-> body.R, count |-> bdd_count(body.R, pl)]
    /\ op' = "symbolic_reachability_bdd"
    /\ fix' = None
    /\ UNCHANGED <<netvars, HAS_PULP, bfs, dbfs, lib, arg>>

NextFix ==
    \/ FixStart
    \/ FixIterate
    \/ FixReturn
    \/ Discard

\* a call that has started runs on: the loop is sequential code
SpecFix ==
    /\ InitBfs
    /\ [][NextFix]_vars
    /\ WF_vars(FixIterate \/ FixReturn)

(***************************************************************************)
(* test_reachability.py: the parallel chains of run_all_tests.             *)
(***************************************************************************)
InitChains ==
    /\ \E n \in 1..MaxParallelChains : IsNet(build_parallel_chains(n))
    /\ HAS_PULP = TRUE
    /\ bfs = None
    /\ fix = None
    /\ dbfs = None
    /\ lib = None
    /\ op = "none"
    /\ arg = <<>>
    /\ ret = <<>>

NextChains ==
    \/ Fire
    \/ GetReachableMarkings
    \/ TestCase
    \/ Discard

SpecChains == InitChains /\ [][NextChains]_vars

(***************************************************************************)
(* main.py: the report of main on a parsed net. parse_pnml marks only      *)
(* places it has declared.                                                 *)
(***************************************************************************)
\* Python's truth value of an Optional[FrozenSet]: None and the empty set
\* are both false
truthy(x) == x # None /\ x[1] # {}

\* main.py line 226: weights = {p: i for i, p in enumerate(places_list, 1)}
main_weights ==
    [p \in places |-> CHOOSE i \in 1..Cardinality(places) : sorted(places)[i] = p]

InitMain ==
    /\ NetUpTo(MaxPlaces, MaxArcs)
    /\ initial_marking \subseteq places
    /\ HAS_PULP = TRUE
    /\ bfs = None
    /\ fix = None
    /\ dbfs = None
    /\ lib = None
    /\ op = "none"
    /\ arg = <<>>
    /\ ret = <<>>

\* main.py lines 168-267: the verdict on the result of 'bdd_compact' (line
\* 181, if deadlock_marking:) and the two optimization reports (lines 245 and
\* 262, if optimal_marking_bf: / if optimal_marking_ilp:)
Main ==
    /\ op = "none"
    /\ \E d \in detect_deadlock("bdd_compact") :
       \E ilp \in optimize_reachable_markings_ilp(main_weights) :
       \E bf \in {optimize_reachable_markings_bruteforce(main_weights)} :
          /\ op' = "main"
          /\ arg' = [weights |-> main_weights]
          /\ ret' = IF d.err # "none" \/ bf.err # "none" \/ ilp.err # "none"
                    THEN [err |-> "exit"]
                    ELSE [err |-> "none",
                          deadlock_marking |-> d.val,
                          verdict |-> IF truthy(d.val) THEN "DEADLOCK DETECTED"
                                      ELSE "NO DEADLOCK FOUND",
                          optimal_marking_bf |-> bf.marking,
                          report_bf |-> IF truthy(bf.marking) THEN "Optimal marking"
                                        ELSE "No reachable marking found",
                          optimal_marking_ilp |-> ilp.marking,
                          report_ilp |-> IF truthy(ilp.marking) THEN "Optimal marking"
                                         ELSE "No reachable marking found"]
    /\ UNCHANGED <<netvars, HAS_PULP, bfs, fix, dbfs, lib>>

NextMain ==
    \/ Main
    \/ Discard

SpecMain == InitMain /\ [][NextMain]_vars

(***************************************************************************)
(* explicit_reachability.py: the dictionary-based search. A marking is a   *)
(* dict place -> number of tokens; net.places is the initial one.          *)
(***************************************************************************)
\* the number of occurrences of x in the list s
Count(s, x) == Cardinality({i \in 1..Len(s) : s[i] = x})

\* the arcs of the list that pass the test of line 9 (place => t) and of line
\* 13 (t => place), in the order of net.arcs
ArcsInto(t) ==
    LET Test(a) == a[1] \in places /\ a[2] \in transitions /\ a[2] = t
    IN SelectSeq(arcs, Test)
ArcsFrom(t) ==
    LET Test(a) == a[1] \in transitions /\ a[2] \in places /\ a[1] = t
    IN SelectSeq(arcs, Test)

\* lines 3-16: pre[t] and post[t] are lists, one entry for each arc
build_relations ==
    [pre |-> [t \in transitions |->
                 [i \in 1..Len(ArcsInto(t)) |-> ArcsInto(t)[i][1]]],
     post |-> [t \in transitions |->
                 [i \in 1..Len(ArcsFrom(t)) |-> ArcsFrom(t)[i][2]]]]

\* lines 18-23
is_firable(marking, pre, t) ==
    \A i \in 1..Len(pre[t]) : marking[pre[t][i]] # 0

\* lines 25-36, the fire of explicit_reachability.py: one token less for each
\* entry of pre[t], one more for each entry of post[t]
fire_dict(marking, pre, post, t) ==
    [p \in DOMAIN marking |-> marking[p] - Count(pre[t], p) + Count(post[t], p)]

\* line 46: the tuple of the token counts, in the sorted order of the places
encode(m) ==
    LET ks == sorted(DOMAIN m)
    IN [i \in 1..Len(ks) |-> m[ks[i]]]

\* net.places of the dictionary form of the net: place -> tokens, 0 or 1
dict_places == [p \in places |-> IF p \in initial_marking THEN 1 ELSE 0]

\* the marked places of a dictionary marking
support_of(m) == {p \in DOMAIN m : m[p] > 0}

\* lines 57-64: one transition tried on the dequeued marking
dict_try(t, marking, rel, st) ==
    IF ~is_firable(marking, rel.pre, t) THEN st
    ELSE LET newM == fire_dict(marking, rel.pre, rel.post, t)
             code == encode(newM)
         IN IF code \in st.visited THEN st
            ELSE [visited |-> st.visited \cup {code},
                  queue |-> Append(st.queue, newM),
                  all_states |-> Append(st.all_states, newM),
                  order |-> st.order]

\* line 56: for t in net.transitions, ts being the order in which the
\* collection gives its elements
RECURSIVE dict_for(_, _, _, _)
dict_for(ts, marking, rel, st) ==
    IF ts = <<>> THEN st
    ELSE dict_for(Tail(ts), marking, rel, dict_try(Head(ts), marking, rel, st))

\* lines 53-64: one iteration of the while loop
dict_step(st) ==
    dict_for(st.order, Head(st.queue), build_relations,
             [st EXCEPT !.queue = Tail(st.queue)])

\* every token count of the markings found so far is within the bound
WithinTokens(st) ==
    \A i \in 1..Len(st.all_states) : \A p \in DOMAIN st.all_states[i] :
        st.all_states[i][p] \in (0 - MaxTokens)..MaxTokens

\* nets handed to the dictionary-based search: every marked place is declared
InitDict ==
    /\ NetUpTo(MaxPlaces, MaxDictArcs)
    /\ initial_marking \subseteq places
    /\ HAS_PULP = TRUE
    /\ bfs = None
    /\ fix = None
    /\ dbfs = None
    /\ lib = None
    /\ op = "none"
    /\ arg = <<>>
    /\ ret = <<>>

\* lines 39-51: up to the first test of the while loop. net.transitions is
\* a list, or a set of str whose iteration order changes from run to run:
\* order is the order it has during this call
DictStart ==
    /\ op = "none"
    /\ op' = "bfs_reachability_loop"
    /\ \E ts \in IterationOrders(transitions) :
          /\ arg' = [places |-> dict_places, transitions |-> ts]
          /\ dbfs' = Some([visited |-> {encode(dict_places)},
                           queue |-> <<dict_places>>,
                           all_states |-> <<dict_places>>,
                           order |-> ts])
    /\ ret' = <<>>
    /\ UNCHANGED <<netvars, HAS_PULP, bfs, fix, lib>>

\* lines 53-64: while queue: one marking dequeued and expanded (followed while
\* the token counts stay within MaxTokens)
DictIterate ==
    /\ op = "bfs_reachability_loop"
    /\ dbfs[1].queue # <<>>
    /\ \E st \in {dict_step(dbfs[1])} :
          /\ WithinTokens(st)
          /\ dbfs' = Some(st)
    /\ UNCHANGED <<netvars, HAS_PULP, bfs, fix, lib, op, arg, ret>>

\* line 66: return all_states, once the queue is empty
DictReturn ==
    /\ op = "bfs_reachability_loop"
    /\ dbfs[1].queue = <<>>
    /\ op' = "bfs_reachability"
    /\ ret' = dbfs[1].all_states
    /\ dbfs' = None
    /\ UNCHANGED <<netvars, HAS_PULP, bfs, fix, lib, arg>>

NextDict ==
    \/ DictStart
    \/ DictIterate
    \/ DictReturn
    \/ Discard

SpecDict == InitDict /\ [][NextDict]_vars

(***************************************************************************)
(* Properties                                                              *)
(***************************************************************************)
\* the firing rule, stated on the net itself: t is enabled in m, and m2 is
\* what firing t in m gives
Enabled(t, m) == preset[t] \subseteq m
Successor(t, m, m2) ==
    /\ Enabled(t, m)
    /\ \A p \in m \cup m2 \cup preset[t] \cup postset[t] :
          p \in m2 <=> (p \in postset[t] \/ (p \in m /\ p \notin preset[t]))

\* C1: the count returned by symbolic_reachability_bdd equals the number of
\* markings returned by get_reachable_markings, for every net.
C1_CountsAgree ==
    op = "test_case" => ret.n_bdd = ret.n_exp

\* C2: for every net with at least one place, the markings denoted by the
\* satisfying assignments of R over the place variables are exactly the
\* markings returned by get_reachable_markings.
C2_SameMarkingSet ==
    (op = "test_case" /\ places # {}) =>
        {marking_of(a, sorted(places)) : a \in pick_iter(ret.R_bdd, sorted(places))}
            = Range(ret.R_exp)

\* C3: for each method in explicit, bdd, bdd_compact: a marking returned by
\* detect_deadlock is in the list of get_reachable_markings and enables no
\* transition; when None is returned, every marking of the list enables some
\* transition.
C3_DeadlockSoundAndComplete ==
    (op = "detect_deadlock" /\ arg.method \in {"explicit", "bdd", "bdd_compact"}) =>
        /\ ret.val # None =>
              /\ ret.val[1] \in Range(get_reachable_markings)
              /\ \A t \in transitions : ~Enabled(t, ret.val[1])
        /\ ret.val = None =>
              \A m \in Range(get_reachable_markings) :
                  \E t \in transitions : Enabled(t, m)

\* C4: 'explicit' and 'bdd_compact' give the same existence verdict: one
\* returns a marking iff the other does.
C4_SameVerdict ==
    op = "run_test" => ((ret.explicit = None) <=> (ret.bdd_compact = None))

\* C5: for t enabled in m, fire(t, m) returns exactly (m minus preset(t))
\* union postset(t): a place is marked in the result iff it is in postset(t),
\* or in m and not in preset(t).
C5_FireResult ==
    (op = "fire" /\ Enabled(arg.transition, arg.marking)) =>
        /\ ret.err = "none"
        /\ ret.val # None
        /\ Successor(arg.transition, arg.marking, ret.val[1])

\* C5 witness: an enabled transition fired on a marking where one place is in
\* both its preset and its postset, and another postset place is already marked
C5_Witness ==
    /\ op = "fire"
    /\ ret.err = "none"
    /\ preset[arg.transition] \cap postset[arg.transition] # {}
    /\ (postset[arg.transition] \ preset[arg.transition]) \cap arg.marking # {}
    /\ ret.val[1] = arg.marking

\* C6: fire(t, m) raises RuntimeError and returns no marking iff some place of
\* preset(t) is not in m, and returns a marking otherwise (an empty preset
\* included); the call changes nothing of the net.
C6_FireDefinedIffEnabled ==
    [][op' = "fire" =>
         /\ UNCHANGED netvars
         /\ (\E p \in preset[arg'.transition] : p \notin arg'.marking) =>
                (ret'.err = "RuntimeError" /\ ret'.val = None)
         /\ (\A p \in preset[arg'.transition] : p \in arg'.marking) =>
                (ret'.err = "none" /\ ret'.val # None)]_vars

\* C6 witness: fire was called on a marking that misses a preset place, and
\* signalled the error
C6_Witness ==
    /\ op = "fire"
    /\ \E p \in preset[arg.transition] : p \notin arg.marking
    /\ ret.err = "RuntimeError"

\* C7: the first marking of the list is the initial marking, every later one
\* is the result of firing an enabled transition in an earlier one (so each is
\* reachable by a finite firing sequence), and no marking is listed twice.
C7_ListedMarkingsReachableOnce ==
    op = "get_reachable_markings" =>
        /\ \A i \in 1..Len(ret) :
              \/ (i = 1 /\ ret[i] = initial_marking)
              \/ \E j \in 1..(i - 1) : \E t \in transitions : Successor(t, ret[j], ret[i])
        /\ \A i, j \in 1..Len(ret) : ret[i] = ret[j] => i = j

\* C7 witness: a list with a marking two firings away from the initial one,
\* and a listed marking that a second transition leads back to
C7_Witness ==
    /\ op = "get_reachable_markings"
    /\ Len(ret) >= 3
    /\ \E i \in 2..Len(ret) : \E t \in transitions : \E k \in 1..Len(ret) :
          k # i /\ Successor(t, ret[i], ret[k])
    /\ \E i \in 1..Len(ret) : ~(\E t \in transitions : Successor(t, ret[1], ret[i]))
                               /\ ret[i] # ret[1]

\* C8 as stated: for every net, with zero or more places, the list contains
\* the initial marking and is closed under firing.
C8_ContainsInitialAndClosed ==
    op = "get_reachable_markings" =>
        /\ initial_marking \in Range(ret)
        /\ \A m \in Range(ret) : \A t \in transitions :
              Enabled(t, m) => \E m2 \in Range(ret) : Successor(t, m, m2)

\* C8 amended: for every net with at least one place the list contains the
\* initial marking and is closed under firing; for a net with no places the
\* list is empty.
C8_ClosedWhenPlacesElseEmpty ==
    op = "get_reachable_markings" =>
        IF places = {} THEN ret = <<>>
        ELSE /\ initial_marking \in Range(ret)
             /\ \A m \in Range(ret) : \A t \in transitions :
                   Enabled(t, m) => \E m2 \in Range(ret) : Successor(t, m, m2)

\* C8 witness: a list of a net with places, holding a marking that is not a
\* direct successor of the initial one and itself has a successor
C8_Witness ==
    /\ op = "get_reachable_markings"
    /\ places # {}
    /\ \E i \in 2..Len(ret) :
          /\ ~(\E t \in transitions : Successor(t, ret[1], ret[i]))
          /\ \E t \in transitions : Enabled(t, ret[i])

\* C9: the brute-force and the ILP optimizer return the same optimal value
\* for every net and weight map (they fail alike when neither returns).
C9_SameOptimalValue ==
    op = "optimize" =>
        /\ ret.bf.err = ret.ilp.err
        /\ ret.bf.value = ret.ilp.value
        /\ (ret.bf.marking = None) <=> (ret.ilp.marking = None)

\* C9 witness: both optimizers returned, a place marked in some reachable
\* marking has a negative weight, some declared place has no weight, and the
\* optimum is the empty marking
C9_Witness ==
    /\ op = "optimize"
    /\ ret.bf.err = "none"
    /\ ret.bf.marking = Some({})
    /\ ret.ilp.marking # None
    /\ Len(get_reachable_markings) >= 2
    /\ \E p \in places \cap DOMAIN arg.weights :
          arg.weights[p] < 0 /\ \E m \in Range(get_reachable_markings) : p \in m
    /\ \E p \in places : p \notin DOMAIN arg.weights

\* C10: if the initial marking is a subset of the declared places, every
\* marking fire produces from a marking of declared places, and every marking
\* get_reachable_markings returns, is a subset of the declared places.
C10_MarkingsWithinPlaces ==
    initial_marking \subseteq places =>
        /\ (op = "fire" /\ arg.marking \subseteq places /\ ret.err = "none") =>
              ret.val[1] \subseteq places
        /\ op = "get_reachable_markings" =>
              \A i \in 1..Len(ret) : ret[i] \subseteq places

\* C10 witness: a net built with arcs into and out of a transition, explored
\* from an initial marking of declared places, with a marking listed beyond
\* the initial one
C10_Witness ==
    /\ initial_marking \subseteq places
    /\ initial_marking # {}
    /\ op = "get_reachable_markings"
    /\ Len(ret) >= 2
    /\ \E t \in transitions : preset[t] # {} /\ postset[t] # {}

\* C11: a started get_reachable_markings returns (its queue runs empty), and
\* at no point has it dequeued more than 2^|places| markings.
C11_TerminatesWithinBound ==
    /\ [](bfs # None => bfs[1].dequeued <= 2 ^ Cardinality(places))
    /\ (op = "bfs_loop") ~> (op = "get_reachable_markings")

\* C11 witness: the queue has run empty after exactly 2^|places| dequeues on a
\* net with two places
C11_Witness ==
    /\ op = "bfs_loop"
    /\ Cardinality(places) = 2
    /\ bfs[1].st.queue = <<>>
    /\ bfs[1].dequeued = 2 ^ Cardinality(places)

\* the minimal number of firings that lead from the initial marking to m
\* (-1 if none does), by levels of the firing rule
RECURSIVE DistFrom(_, _, _, _)
DistFrom(frontier, seen, d, m) ==
    IF m \in frontier THEN d
    ELSE IF frontier = {} THEN -1
    ELSE LET fired == {(y[2] \ preset[y[1]]) \cup postset[y[1]] :
                          y \in {z \in transitions \X frontier : Enabled(z[1], z[2])}}
         IN DistFrom(fired \ (seen \cup frontier), seen \cup frontier, d + 1, m)
Dist(m) == DistFrom({initial_marking}, {}, 0, m)

\* the position in s of the first marking that s[i] is a direct successor of
\* (0 if there is none before i), and the rank of the first transition, in
\* ascending order of identifiers, that leads from s[k] to s[i]
Parent(s, i) ==
    LET K == {k \in 1..(i - 1) : \E t \in transitions : Successor(t, s[k], s[i])}
    IN IF K = {} THEN 0 ELSE CHOOSE k \in K : \A k2 \in K : k <= k2
FirstTransition(s, k, i) ==
    LET R == {Rank(t) : t \in {u \in transitions : Successor(u, s[k], s[i])}}
    IN IF R = {} THEN 0 ELSE CHOOSE r \in R : \A r2 \in R : r <= r2

\* breadth-first first-discovery order of a non-empty list s: the initial
\* marking first, distances non-decreasing, markings in the order in which
\* their discoverers were dequeued, and those with the same discoverer in the
\* order of the transitions that produce them. With the absence of repeats and
\* closure under firing this fixes the sequence, so two runs give the same one.
BreadthFirstOrder(s) ==
    /\ Len(s) >= 1
    /\ s[1] = initial_marking
    /\ \A i, j \in 1..Len(s) : i < j => (Dist(s[i]) >= 0 /\ Dist(s[i]) <= Dist(s[j]))
    /\ \A i \in 2..Len(s) : Parent(s, i) >= 1
    /\ \A i, j \in 2..Len(s) : i < j =>
          /\ Parent(s, i) <= Parent(s, j)
          /\ Parent(s, i) = Parent(s, j) =>
                FirstTransition(s, Parent(s, i), i) < FirstTransition(s, Parent(s, j), j)

\* C12 as stated: for every net the returned list is in breadth-first
\* first-discovery order, its first element being the initial marking, with
\* transitions tried in ascending lexical order.
C12_BreadthFirstOrder ==
    op = "get_reachable_markings" => BreadthFirstOrder(ret)

\* C12 amended: for every net with at least one place the returned list is in
\* breadth-first first-discovery order with transitions tried in ascending
\* lexical order; for a net with no places the list is empty and has no first
\* element.
C12_BreadthFirstOrderWhenPlaces ==
    op = "get_reachable_markings" =>
        IF places = {} THEN ret = <<>> ELSE BreadthFirstOrder(ret)

\* C12 witness: a list where one marking has two successors, found by two
\* different transitions, and a marking at distance two follows them
C12_Witness ==
    /\ op = "get_reachable_markings"
    /\ Len(ret) >= 4
    /\ Parent(ret, 2) = 1
    /\ Parent(ret, 3) = 1
    /\ FirstTransition(ret, 1, 2) # FirstTransition(ret, 1, 3)
    /\ Dist(ret[4]) = 2

\* C13: add_place(id) and add_transition(id) raise the duplicate-identifier
\* error whenever id is already a place or a transition, so no identifier is
\* ever both; a call that raised left places, transitions, arcs, preset and
\* postset as they were.
C13_DuplicateRejected ==
    /\ [](places \cap transitions = {})
    /\ [][/\ op' = "add_place" =>
              /\ arg'.pid \in places \cup transitions => ret'.err = "ValueError"
              /\ ret'.err # "none" =>
                    UNCHANGED <<places, transitions, arcs, preset, postset>>
          /\ op' = "add_transition" =>
              /\ arg'.tid \in places \cup transitions => ret'.err = "ValueError"
              /\ ret'.err # "none" =>
                    UNCHANGED <<places, transitions, arcs, preset, postset>>]_vars

\* C13 witness: add_place was refused for the identifier of a transition that
\* already has an arc
C13_Witness ==
    /\ op = "add_place"
    /\ ret.err = "ValueError"
    /\ arg.pid \in transitions
    /\ preset[arg.pid] # {}

\* C14: add_arc(src, tgt) raises when src or tgt is undeclared, when both are
\* places and when both are transitions; a call that raised left arcs, preset
\* and postset as they were; a call that returned appended exactly the arc
\* (src, tgt), put tgt into postset[src] and src into preset[tgt], and changed
\* no other preset or postset.
C14_AddArc ==
    [][op' = "add_arc" =>
         LET src == arg'.src
             tgt == arg'.tgt
             nodes == places \cup transitions
         IN /\ (src \notin nodes \/ tgt \notin nodes) => ret'.err = "ValueError"
            /\ (src \in places /\ tgt \in places) => ret'.err = "ValueError"
            /\ (src \in transitions /\ tgt \in transitions) => ret'.err = "ValueError"
            /\ ret'.err # "none" => UNCHANGED <<arcs, preset, postset>>
            /\ ret'.err = "none" =>
                  /\ arcs' = arcs \o <<(<<src, tgt>>)>>
                  /\ DOMAIN postset' = DOMAIN postset
                  /\ DOMAIN preset' = DOMAIN preset
                  /\ \A n \in nodes :
                        /\ postset'[n] = IF n = src THEN postset[n] \cup {tgt} ELSE postset[n]
                        /\ preset'[n] = IF n = tgt THEN preset[n] \cup {src} ELSE preset[n]]_vars

\* C14 witness: add_arc returned for an arc from a transition to a place, on
\* a net that already had an arc
C14_Witness ==
    /\ op = "add_arc"
    /\ ret.err = "none"
    /\ arg.src \in transitions
    /\ arg.tgt \in places
    /\ Len(arcs) >= 2
    /\ arcs[Len(arcs)] = <<arg.src, arg.tgt>>

\* C15: set_initial_marking(p, tokens) never fails; with tokens > 1 it does
\* what it does with tokens = 1, p is in the initial marking (a set, so once);
\* with tokens <= 0 the initial marking is left as it was.
C15_TokensClamped ==
    [][op' = "set_initial_marking" =>
         /\ ret'.err = "none"
         /\ arg'.tokens >= 1 => initial_marking' = initial_marking \cup {arg'.place_id}
         /\ arg'.tokens <= 0 => initial_marking' = initial_marking
         /\ UNCHANGED <<places, transitions, arcs, preset, postset>>]_vars

\* C15 witness: a declared place was given two tokens, and is marked
C15_Witness ==
    /\ op = "set_initial_marking"
    /\ arg.tokens > 1
    /\ arg.place_id \in places
    /\ arg.place_id \in initial_marking
    /\ ret.err = "none"

\* C16: for the linear chain of n places with initial marking {P0}, the
\* explicit list is [{P0}, {P1}, ..., {P(n-1)}], the symbolic count is n, the
\* only listed marking that enables no transition is the last, {P(n-1)}, and
\* 'explicit' and 'bdd_compact' both return it.
C16_LinearChain ==
    \A n \in 1..MaxChain : IsNet(build_linear_chain(n)) =>
        LET chain == [i \in 1..n |-> {PlaceNames[i]}]
        IN /\ op = "get_reachable_markings" =>
                 /\ ret = chain
                 /\ \A i \in 1..Len(ret) :
                       (\A t \in transitions : ~Enabled(t, ret[i])) <=> i = n
           /\ op = "test_case" =>
                 (ret.R_exp = chain /\ ret.n_exp = n /\ ret.n_bdd = n)
           /\ (op = "detect_deadlock" /\ arg.method \in {"explicit", "bdd_compact"}) =>
                 (ret.err = "none" /\ ret.val = Some({PlaceNames[n]}))
           /\ op = "run_test" =>
                 (ret.explicit = Some({PlaceNames[n]})
                    /\ ret.bdd_compact = Some({PlaceNames[n]}))

\* C16 witness: both explorers have run on the longest chain and counted as
\* many markings as it has places
C16_Witness ==
    /\ IsNet(build_linear_chain(MaxChain))
    /\ MaxChain >= 5
    /\ op = "test_case"
    /\ ret.n_exp = MaxChain
    /\ ret.n_bdd = MaxChain

\* C17: in the two-philosopher net no listed marking is a deadlock, none holds
\* both Eat1 and Eat2 (neither in the explicit list nor among the markings of
\* the symbolic set), and detect_deadlock returns None for 'explicit' and for
\* 'bdd_compact'.
C17_DiningPhilosophers ==
    IsNet(build_dining_philosophers_2) =>
        /\ op = "get_reachable_markings" =>
              \A m \in Range(ret) :
                  /\ \E t \in transitions : Enabled(t, m)
                  /\ ~({"Eat1", "Eat2"} \subseteq m)
        /\ op = "test_case" =>
              \A a \in pick_iter(ret.R_bdd, sorted(places)) :
                  ~({"Eat1", "Eat2"} \subseteq marking_of(a, sorted(places)))
        /\ (op = "detect_deadlock" /\ arg.method \in {"explicit", "bdd_compact"}) =>
              (ret.err = "none" /\ ret.val = None)
        /\ op = "run_test" => (ret.explicit = None /\ ret.bdd_compact = None)

\* C17 witness: both methods have run on the two-philosopher net, whose list
\* holds a marking with a philosopher eating, and returned None
C17_Witness ==
    /\ IsNet(build_dining_philosophers_2)
    /\ op = "run_test"
    /\ ret.explicit = None
    /\ ret.bdd_compact = None
    /\ \E m \in Range(get_reachable_markings) : "Eat2" \in m

\* C18: in the XOR-deadlock net the reachable markings are exactly {P0}, {P1}
\* and {P2}, in the explicit list and in the symbolic set alike; {P1} and {P2}
\* enable no transition; T2 is enabled in no reachable marking; 'explicit' and
\* 'bdd_compact' each return a deadlock.
C18_XorDeadlock ==
    IsNet(build_xor_deadlock) =>
        /\ op = "get_reachable_markings" =>
              /\ Len(ret) = 3
              /\ Range(ret) = {{"P0"}, {"P1"}, {"P2"}}
              /\ \A m \in {{"P1"}, {"P2"}} : \A t \in transitions : ~Enabled(t, m)
              /\ \A m \in Range(ret) : ~Enabled("T2", m)
        /\ op = "test_case" =>
              {marking_of(a, sorted(places)) : a \in pick_iter(ret.R_bdd, sorted(places))}
                  = {{"P0"}, {"P1"}, {"P2"}}
        /\ (op = "detect_deadlock" /\ arg.method \in {"explicit", "bdd_compact"}) =>
              (ret.err = "none" /\ ret.val \in {Some({"P1"}), Some({"P2"})})
        /\ op = "run_test" =>
              /\ ret.explicit \in {Some({"P1"}), Some({"P2"})}
              /\ ret.bdd_compact \in {Some({"P1"}), Some({"P2"})}

\* C18 witness: both methods have run on the XOR-deadlock net and each
\* returned one of its two deadlocks, not the same one
C18_Witness ==
    /\ IsNet(build_xor_deadlock)
    /\ op = "run_test"
    /\ ret.explicit = Some({"P1"})
    /\ ret.bdd_compact = Some({"P2"})

\* the nets of single-place loops Pi -> Ti -> Pi, every Pi marked
LoopNets == {build_parallel_net(k) : k \in 1..MaxLoops} \cup {build_no_deadlock}

\* C19: for k >= 1 independent single-place loops, each marked, the explicit
\* list holds the initial marking and nothing else, the symbolic set is that
\* one marking and its count is 1, every transition is enabled in it, and no
\* method finds a deadlock.
C19_Loops ==
    \A pn \in LoopNets : IsNet(pn) =>
        /\ op = "get_reachable_markings" =>
              /\ ret = <<initial_marking>>
              /\ \A t \in transitions : Enabled(t, ret[1])
        /\ op = "test_case" =>
              /\ ret.n_exp = 1
              /\ ret.n_bdd = 1
              /\ {marking_of(a, sorted(places)) : a \in pick_iter(ret.R_bdd, sorted(places))}
                    = {initial_marking}
        /\ (op = "detect_deadlock" /\ arg.method \in {"explicit", "bdd_compact"}) =>
              (ret.err = "none" /\ ret.val = None)
        /\ op = "run_test" => (ret.explicit = None /\ ret.bdd_compact = None)

\* C19 witness: both explorers have run on the net of the most loops and each
\* counted one marking
C19_Witness ==
    /\ IsNet(build_parallel_net(MaxLoops))
    /\ MaxLoops >= 3
    /\ op = "test_case"
    /\ ret.n_exp = 1
    /\ ret.n_bdd = 1
    /\ ret.R_exp = <<places>>

\* C20: where PuLP is unavailable, detect_deadlock with 'explicit' and with
\* 'bdd_compact' and optimize_reachable_markings_bruteforce return normally,
\* and the solver-based methods (detect_deadlock with 'bdd', the ILP
\* optimizer) return 'no solution' instead of raising.
C20_NoPulpNoAbort ==
    ~HAS_PULP =>
        /\ (op = "detect_deadlock" /\ arg.method \in {"explicit", "bdd_compact"}) =>
              ret.err = "none"
        /\ (op = "detect_deadlock" /\ arg.method = "bdd") =>
              (ret.err = "none" /\ ret.val = None)
        /\ op = "optimize" =>
              /\ ret.bf.err = "none"
              /\ ret.ilp.err = "none"
              /\ ret.ilp.marking = None

\* C21: find_deadlock_ilp_bdd gives the same existence verdict as
\* find_deadlock_ilp_bdd_compact on every net, nets with an empty-preset
\* transition included; and a marking it returns is one of the satisfying
\* assignments of R over the place variables in which every transition with a
\* non-empty preset has an unmarked preset place.
C21_IlpAgreesWithCompact ==
    (op = "detect_deadlock" /\ arg.method = "bdd") =>
        /\ \A r \in detect_deadlock("bdd_compact") :
              (ret.val = None) <=> (r.val = None)
        /\ ret.val # None =>
              /\ \E a \in pick_iter(symbolic_reachability_bdd.R, sorted(places)) :
                    marking_of(a, sorted(places)) = ret.val[1]
              /\ \A t \in transitions :
                    preset[t] # {} => \E p \in preset[t] : p \notin ret.val[1]

\* C22: is_deadlock_explicit(pn, m) is true iff every transition has a
\* non-empty preset with at least one place outside m; so a net with a
\* transition of empty preset has no deadlock marking, and in a net with no
\* transitions every marking is a deadlock.
C22_DeadlockPredicate ==
    op = "is_deadlock_explicit" =>
        /\ ret <=> (\A t \in transitions :
                       preset[t] # {} /\ \E p \in preset[t] : p \notin arg.marking)
        /\ (\E t \in transitions : preset[t] = {}) => ~ret
        /\ transitions = {} => ret

\* a call on a net with an empty-preset transition next to a blocked one
C22_Witness ==
    /\ op = "is_deadlock_explicit"
    /\ ~ret
    /\ \E t \in transitions : preset[t] = {}
    /\ \E t \in transitions : preset[t] # {} /\ ~(preset[t] \subseteq arg.marking)

\* C23: find_deadlock_explicit returns the deadlock marking with the smallest
\* index in the list of get_reachable_markings, or None when no marking of the
\* list is a deadlock.
C23_FirstDeadlockOfList ==
    op = "find_deadlock_explicit" =>
        LET L == get_reachable_markings
            D == {i \in 1..Len(L) : \A t \in transitions : ~Enabled(t, L[i])}
        IN IF D = {} THEN ret = None
           ELSE \E i \in D : (\A j \in D : i <= j) /\ ret = Some(L[i])

\* a call on a net whose list holds two deadlocks, the later one not returned
C23_Witness ==
    /\ op = "find_deadlock_explicit"
    /\ ret # None
    /\ \E i \in 1..Len(get_reachable_markings) :
          /\ get_reachable_markings[i] # ret[1]
          /\ \A t \in transitions : ~Enabled(t, get_reachable_markings[i])

\* C24: whatever reachable-set function find_deadlock_ilp_bdd_compact is
\* handed, an over-approximation included, a candidate outside the explicit
\* reachable set is skipped and the scan goes on: the finder never returns a
\* marking absent from get_reachable_markings, and it returns a deadlock
\* whenever some candidate, however late in the list, is a reachable marking
\* that enables no transition.
C24_CandidatesCrossChecked ==
    op = "find_deadlock_ilp_bdd_compact" =>
        LET pl == sorted(places)
            explicit == Range(get_reachable_markings)
            dead == {i \in 1..Len(arg.satisfying) :
                        /\ marking_of(arg.satisfying[i], pl) \in explicit
                        /\ \A t \in transitions :
                              ~Enabled(t, marking_of(arg.satisfying[i], pl))}
        IN /\ ret.err = "none"
           /\ ret.val # None => ret.val[1] \in explicit
           /\ dead # {} =>
                 \E i \in dead : (\A j \in dead : i <= j)
                                 /\ ret.val = Some(marking_of(arg.satisfying[i], pl))
           /\ dead = {} => ret.val = None

\* a call whose list starts with a marking outside the explicit reachable set
\* that enables no transition, and holds a reachable deadlock after it
C24_Witness ==
    /\ op = "find_deadlock_ilp_bdd_compact"
    /\ Len(arg.satisfying) >= 2
    /\ marking_of(arg.satisfying[1], sorted(places)) \notin Range(get_reachable_markings)
    /\ \A t \in transitions : ~Enabled(t, marking_of(arg.satisfying[1], sorted(places)))
    /\ transitions # {}
    /\ ret.val = Some(marking_of(arg.satisfying[2], sorted(places)))

\* the value of a marking under a weight map: the sum of the weights of its
\* marked places, 0 for a place the map does not mention
RECURSIVE ValueOf(_, _)
ValueOf(weights, m) ==
    IF m = {} THEN 0
    ELSE LET p == CHOOSE q \in m : TRUE
         IN (IF p \in DOMAIN weights THEN weights[p] ELSE 0) + ValueOf(weights, m \ {p})

\* C25: optimize_reachable_markings_bruteforce returns a marking of the
\* reachable list whose value is the maximum over the list, and among the
\* markings of maximal value the one that comes first in the list.
C25_BruteforceFirstMaximum ==
    (op = "optimize" /\ get_reachable_markings # <<>>) =>
        LET L == get_reachable_markings
            best == {i \in 1..Len(L) :
                        \A j \in 1..Len(L) :
                            ValueOf(arg.weights, L[j]) <= ValueOf(arg.weights, L[i])}
        IN /\ ret.bf.err = "none"
           /\ \E i \in best :
                 /\ \A j \in best : i <= j
                 /\ ret.bf.marking = Some(L[i])
                 /\ ret.bf.value = ValueOf(arg.weights, L[i])

\* C26: after any sequence of add_place, add_transition and add_arc calls,
\* accepted or rejected: no identifier is both a place and a transition; every
\* arc joins two declared nodes, exactly one of them a place; for declared s
\* and t, (s, t) is an arc iff t is in postset[s] iff s is in preset[t]; so the
\* preset and the postset of every transition hold places only.
C26_NetWellFormed ==
    LET nodes == places \cup transitions
    IN /\ places \cap transitions = {}
       /\ \A i \in 1..Len(arcs) :
             /\ arcs[i][1] \in nodes
             /\ arcs[i][2] \in nodes
             /\ (arcs[i][1] \in places) # (arcs[i][2] \in places)
       /\ DOMAIN preset = nodes
       /\ DOMAIN postset = nodes
       /\ \A n \in nodes : preset[n] \subseteq nodes /\ postset[n] \subseteq nodes
       /\ \A s \in nodes, t \in nodes :
             /\ (<<s, t>> \in Range(arcs)) <=> (t \in postset[s])
             /\ (t \in postset[s]) <=> (s \in preset[t])
       /\ \A t \in transitions :
             preset[t] \subseteq places /\ postset[t] \subseteq places

\* a rejected add_arc on a net that has an arc into a transition and an arc
\* out of one
C26_Witness ==
    /\ op = "add_arc"
    /\ ret.err = "ValueError"
    /\ arg.src \in places \cup transitions
    /\ arg.tgt \in places \cup transitions
    /\ \E i \in 1..Len(arcs) : arcs[i][1] \in places
    /\ \E i \in 1..Len(arcs) : arcs[i][1] \in transitions

AssignmentOf(m, pl) == {i \in Idx(pl) : pl[i + 1] \in m}

\* C28: for every transition t and every pair of markings (m, m2) over the
\* declared places, the relation T_t that symbolic_reachability_bdd builds
\* holds of (X = m, Y = m2) iff t is enabled in m and m2 = fire(t, m); a place
\* in both the preset and the postset of t keeps its value, so T_t is
\* satisfiable for a transition with such a place.
C28_TransitionRelationIsFire ==
    (op = "test_case" /\ places # {}) =>
        LET pl == sorted(places)
        IN \A t \in transitions :
              /\ \A m \in SUBSET places, m2 \in SUBSET places :
                    (<<AssignmentOf(m, pl), AssignmentOf(m2, pl)>> \in T_t(t, pl))
                        <=> (Enabled(t, m) /\ m2 = (m \ preset[t]) \cup postset[t])
              /\ \A ab \in T_t(t, pl) : \A i \in Idx(pl) :
                    pl[i + 1] \in preset[t] \cap postset[t] =>
                        (i \in ab[1] /\ i \in ab[2])
              /\ T_t(t, pl) # {}

\* the symbolic explorer has run on a net of two places with a transition
\* that has a place both in its preset and in its postset
C28_Witness ==
    /\ op = "test_case"
    /\ Cardinality(places) >= 2
    /\ \E t \in transitions :
          /\ preset[t] \cap postset[t] # {}
          /\ T_t(t, sorted(places)) # {}

\* C29: the fixpoint loop of symbolic_reachability_bdd terminates on every
\* net after at most 2^|places| passes; every pass but the last adds at least
\* one new marking to R and R never loses a marking; the loop stops exactly in
\* the first pass whose image holds no marking outside R.
C29_FixpointTerminates ==
    /\ [](fix # None => fix[1].passes + 1 <= 2 ^ Cardinality(places))
    /\ [][(op = "fixpoint_loop" /\ op' = "fixpoint_loop") =>
             /\ fix[1].R \subseteq fix'[1].R
             /\ fix[1].R # fix'[1].R
             /\ ~(image_of(fix[1].R, T_global(sorted(places))) \subseteq fix[1].R)]_vars
    /\ [][(op = "fixpoint_loop" /\ op' # "fixpoint_loop") =>
             /\ image_of(fix[1].R, T_global(sorted(places))) \subseteq fix[1].R
             /\ op' = "symbolic_reachability_bdd"
             /\ ret'.R = fix[1].R]_vars
    /\ (op = "fixpoint_loop") ~> (op = "symbolic_reachability_bdd")

\* the loop has made two passes that added markings and is at its fixpoint
C29_Witness ==
    /\ op = "fixpoint_loop"
    /\ fix[1].passes = 2
    /\ Cardinality(fix[1].R) >= 3
    /\ image_of(fix[1].R, T_global(sorted(places))) \subseteq fix[1].R

\* C30 as stated: for build_parallel_chains(n) the number of reachable
\* markings is 2^n, as the generator's documentation and the test labels say,
\* and the explicit and the symbolic count agree on it.
C30_ParallelChainsCount ==
    \A n \in 1..MaxParallelChains :
        (IsNet(build_parallel_chains(n)) /\ op = "test_case") =>
            (ret.n_exp = 2 ^ n /\ ret.n_bdd = 2 ^ n)

\* C30, amended: for build_parallel_chains(n) the number of reachable markings
\* is 3^n, each chain being in one of its three places independently of the
\* others; the explicit and the symbolic count agree on it, and the two
\* explorers hold the same markings.
C30_ParallelChainsCountPowerOfThree ==
    \A n \in 1..MaxParallelChains :
        (IsNet(build_parallel_chains(n)) /\ op = "test_case") =>
            /\ ret.n_exp = 3 ^ n
            /\ ret.n_bdd = 3 ^ n
            /\ Range(ret.R_exp) =
                  {m \in SUBSET places :
                      \A i \in 1..n :
                          Cardinality(m \cap {ChainPlaceNames[i][j] : j \in 1..3}) = 1}
            /\ {marking_of(a, sorted(places)) :
                   a \in pick_iter(ret.R_bdd, sorted(places))} = Range(ret.R_exp)

\* both explorers have run on the largest set of chains
C30_Witness ==
    /\ IsNet(build_parallel_chains(MaxParallelChains))
    /\ op = "test_case"
    /\ ret.n_exp = 3 ^ MaxParallelChains
    /\ ret.n_bdd = ret.n_exp

\* the markings of declared places reached from the initial marking, cut down
\* to the declared places, in at most k firings
RECURSIVE ReachWithin(_)
ReachWithin(k) ==
    IF k = 0 THEN {initial_marking \cap places}
    ELSE LET prev == ReachWithin(k - 1)
         IN prev \cup UNION {{(m \ preset[t]) \cup postset[t] :
                                  t \in {u \in transitions : Enabled(u, m)}} :
                              m \in prev}

\* C31: in symbolic_reachability_bdd the initial function R0 has exactly one
\* satisfying assignment over the place variables, the initial marking cut
\* down to the declared places; after k passes of the fixpoint loop R denotes
\* exactly the markings reachable from it in at most k firings.
C31_FixpointLayers ==
    op = "fixpoint_loop" =>
        LET pl == sorted(places)
        IN /\ Cardinality(R0(pl)) = 1
           /\ R0(pl) = {AssignmentOf(initial_marking \cap places, pl)}
           /\ fix[1].passes = 0 => fix[1].R = R0(pl)
           /\ fix[1].R = {AssignmentOf(m, pl) : m \in ReachWithin(fix[1].passes)}

\* two passes done on a net whose initial marking has a declared and an
\* undeclared identifier, and the second pass found a marking the first had not
C31_Witness ==
    /\ op = "fixpoint_loop"
    /\ fix[1].passes = 2
    /\ ReachWithin(2) # ReachWithin(1)
    /\ initial_marking \cap places # {}
    /\ ~(initial_marking \subseteq places)

\* C32: after any sequence of add_place, add_transition, add_arc and
\* set_initial_marking calls the initial marking is a subset of the declared
\* places, so the explicit explorer, which starts from initial_marking as it
\* is, and the symbolic explorer, which encodes the declared places only,
\* start from the same marking.
C32_InitialMarkingDeclared ==
    /\ initial_marking \subseteq places
    /\ places # {} =>
          {marking_of(a, sorted(places)) : a \in pick_iter(R0(sorted(places)), sorted(places))}
              = {initial_marking}

\* C33: the report of main announces 'DEADLOCK DETECTED' iff
\* detect_deadlock(net, 'bdd_compact') returned a marking, and prints an
\* optimal marking iff the optimizer returned one; a returned empty marking is
\* reported as found.
C33_ReportMatchesResult ==
    (op = "main" /\ ret.err = "none") =>
        /\ (ret.verdict = "DEADLOCK DETECTED") <=> (ret.deadlock_marking # None)
        /\ (ret.report_bf = "Optimal marking") <=> (ret.optimal_marking_bf # None)
        /\ (ret.report_ilp = "Optimal marking") <=> (ret.optimal_marking_ilp # None)

\* C34: bfs_reachability of explicit_reachability.py respects 1-safety: on a
\* net whose initial marking gives each place 0 or 1 tokens, every marking of
\* the returned list gives each place 0 or 1 tokens, and the marked places of
\* the returned markings are the markings of PetriNet.get_reachable_markings.
C34_DictSearchOneSafe ==
    op = "bfs_reachability" =>
        /\ \A i \in 1..Len(ret) : \A p \in DOMAIN ret[i] : ret[i][p] \in {0, 1}
        /\ {support_of(ret[i]) : i \in 1..Len(ret)} = Range(get_reachable_markings)

====
